---------------------------- MODULE Spec2Model ----------------------------
(***************************************************************************)
(* Eager best-first search (src/search/search_algorithms/eager_search.cc)  *)
(* as a state machine.  The search is single threaded; one action is one   *)
(* iteration of one of its loops (the pop loop of get_next_node_to_expand, *)
(* the operator loop of generate_successors), so that the position inside  *)
(* step() is part of the state.                                            *)
(*                                                                         *)
(* StateIDs are the positions 1, 2, ... of the registry in order of        *)
(* registration; 0 stands for StateID::no_state and for OperatorID::no_op. *)
(*                                                                         *)
(* Two more components have specifications of their own: the max           *)
(* heuristic (src/search/heuristics/max_heuristic.cc, MaxSpec) and the      *)
(* segmented storage classes (src/search/algorithms/segmented_vector.h,    *)
(* SegSpec).  Each specification leaves the variables of the other         *)
(* components in their idle values.                                        *)
(***************************************************************************)
EXTENDS Integers, Sequences, FiniteSets, TLC

VARIABLES
    cfg,        \* the task and the options the search was constructed with
    pc,         \* position: "initialize", "next_node", "generate", "finished"
    status,     \* SearchStatus of the last step: IN_PROGRESS, SOLVED, FAILED
    reg,        \* StateRegistry: reg[id] is the state registered as id
    node,       \* SearchSpace: node[id] is the SearchNodeInfo of id
    open,       \* open list: entries [key, id] in order of insertion
    hc,         \* heuristic cache: hc[id] is the cached estimate (NO_VALUE if none)
    stats,      \* SearchStatistics counters
    cur,        \* id of the node being expanded (0 outside generate_successors)
    todo,       \* applicable operators not yet looked at by the loop of line 225
    plan,       \* the plan set by check_goal_and_set_plan
    lazy_used,  \* how often the lazy evaluator changed an estimate so far
    log         \* the calls made to nodes, evaluators and the open list, in order

\* HSPMaxHeuristic
VARIABLES
    hpc,        \* position in compute_heuristic: "none", "call", "explore", "total", "returned"
    hstate,     \* the state compute_heuristic was called for
    queue,      \* the exploration queue: entries [cost, prop]
    prop_cost,  \* Proposition::cost of every proposition (-1: not reached)
    op_cost,    \* UnaryOperator::cost of every unary operator
    unsatisfied_preconditions,  \* UnaryOperator::unsatisfied_preconditions
    unsolved_goals,             \* the counter of relaxed_exploration
    total_cost  \* the value compute_heuristic returned

\* SegmentedVector and SegmentedArrayVector
VARIABLES
    sv,         \* the class and the sizes the container was constructed with
    segments,   \* the allocated segments: [addr, cells], in order of allocation
    the_size,   \* number of live entries
    allocated,  \* how many segments the allocator has handed out so far
    freed,      \* the addresses of the segments given back to the allocator
    pushed,     \* the live entries as a plain sequence, in insertion order
    high,       \* the largest size reached so far
    reused      \* whether an entry was pushed where a popped entry had been

\* OperatorCountingHeuristic
VARIABLES
    oc,             \* the arguments the constructor was called with
    opc,            \* position in the constructor: "none", "verify", "variables",
                    \* "constraints", "load", "constructed", "failed"
    lp_variables,   \* the LP variables created so far
    initialised,    \* the constraint generators whose initialize_constraints ran
    lp_loaded       \* the linear program loaded into the solver, << >> if none

searchVars == <<pc, status, reg, node, open, hc, stats, cur, todo, plan, lazy_used, log>>
hmaxVars == <<hpc, hstate, queue, prop_cost, op_cost, unsatisfied_preconditions,
              unsolved_goals, total_cost>>
segVars == <<sv, segments, the_size, allocated, freed, pushed, high, reused>>
ocVars == <<oc, opc, lp_variables, initialised, lp_loaded>>

\* the variables of the components other than the search
others == <<hmaxVars, segVars, ocVars>>

vars == <<cfg, pc, status, reg, node, open, hc, stats, cur, todo, plan, lazy_used, log,
          hmaxVars, segVars, ocVars>>

---------------------------------------------------------------------------
(* Bounds of the model *)

\* cost bounds tried: 1..MaxBound and no bound (INFTY)
MaxBound == 3
\* how many times a lazy evaluator may return an estimate other than the cached one
MaxLazyChanges == 2
\* longest operator sequence looked at when the cheapest plan cost of a task
\* is determined
MaxPlanLen == 4

(* Program constants *)

\* EvaluationResult::INFTY, numeric_limits<int>::max(); also the default bound
INFTY == 2147483647
\* Heuristic::NO_VALUE: no estimate cached
NO_VALUE == -2

---------------------------------------------------------------------------
(* Tasks.  A state is a tuple <<v1, v2>> of variable values, a fact a pair *)
(* <<variable, value>>.  An operator has preconditions, conditional        *)
(* effects and a cost.                                                     *)

Eff(var, val) == [cond |-> {}, var |-> var, val |-> val]
CondEff(cond, var, val) == [cond |-> cond, var |-> var, val |-> val]
\* operator on variable 1: V=a -> V=b with cost c
Move(a, b, c) == [pre |-> {<<1, a>>}, eff |-> {Eff(1, b)}, cost |-> c]

\* h tables: row w+1, column v+1 gives the estimate of state <<v, w>>
Zero == << <<0, 0, 0, 0>>, <<0, 0, 0, 0>> >>

Tasks == <<
    \* S1: chain 0 -> 1 -> 2
    [init |-> <<0, 0>>, goal |-> {<<1, 2>>},
     ops |-> << Move(0, 1, 1), Move(1, 2, 1) >>,
     hs |-> << << <<2, 1, 0, 0>>, <<0, 0, 0, 0>> >> >>],
    \* S2: chain plus a direct operator of cost 5
    [init |-> <<0, 0>>, goal |-> {<<1, 2>>},
     ops |-> << Move(0, 1, 1), Move(1, 2, 1), Move(0, 2, 5) >>,
     hs |-> << << <<2, 1, 0, 0>>, <<0, 0, 0, 0>> >> >>],
    \* S3: unsolvable, no operators
    [init |-> <<0, 0>>, goal |-> {<<1, 1>>},
     ops |-> << >>,
     hs |-> << Zero >>],
    \* S4: two independent variables
    [init |-> <<0, 0>>, goal |-> {<<1, 1>>, <<2, 1>>},
     ops |-> << [pre |-> {<<1, 0>>}, eff |-> {Eff(1, 1)}, cost |-> 1],
                [pre |-> {<<2, 0>>}, eff |-> {Eff(2, 1)}, cost |-> 1] >>,
     hs |-> << << <<1, 1, 0, 0>>, <<1, 0, 0, 0>> >> >>],
    \* S6: conditional effect Y := 1 if X = 0
    [init |-> <<0, 0>>, goal |-> {<<2, 1>>},
     ops |-> << [pre |-> {<<1, 0>>}, eff |-> {CondEff({<<1, 0>>}, 2, 1)}, cost |-> 1] >>,
     hs |-> << << <<1, 0, 0, 0>>, <<0, 0, 0, 0>> >> >>],
    \* diamond: the expensive way into V=2 is generated first, goal behind V=2
    [init |-> <<0, 0>>, goal |-> {<<1, 3>>},
     ops |-> << Move(0, 2, 5), Move(0, 1, 1), Move(1, 2, 1), Move(2, 3, 1) >>,
     hs |-> << << <<3, 2, 1, 5>>, <<0, 0, 0, 0>> >>,      \* greedy closes V=2 early
               << <<0, 6, 1, 2>>, <<0, 0, 0, 0>> >>,      \* inconsistent: f reopens V=2
               << <<3, 2, 1, 0>>, <<0, 0, 0, 0>> >> >>],  \* perfect
    \* zero-cost cycle, a zero-cost self loop and a zero-cost way into V=2
    [init |-> <<0, 0>>, goal |-> {<<1, 3>>},
     ops |-> << Move(0, 0, 0), Move(0, 2, 3), Move(0, 1, 0), Move(1, 0, 0),
                Move(1, 2, 0), Move(2, 3, 1) >>,
     hs |-> << << <<1, 1, 0, 2>>, <<0, 0, 0, 0>> >>,      \* closes V=2 early
               << <<1, 1, 1, 0>>, <<0, 0, 0, 0>> >> >>],
    \* V=1 is a dead end; the goal is reached through V=2
    [init |-> <<0, 0>>, goal |-> {<<1, 3>>},
     ops |-> << Move(0, 1, 1), Move(0, 2, 2), Move(2, 3, 1), Move(2, 1, 0) >>,
     hs |-> << << <<2, INFTY, 1, 0>>, <<0, 0, 0, 0>> >>,      \* safe
               << <<2, 1, INFTY, 0>>, <<0, 0, 0, 0>> >> >>],  \* unsafe: cuts the plan
    \* unsolvable with operators
    [init |-> <<0, 0>>, goal |-> {<<1, 3>>},
     ops |-> << Move(0, 1, 1), Move(1, 0, 1), Move(1, 2, 0) >>,
     hs |-> << << <<1, 1, 1, 0>>, <<0, 0, 0, 0>> >>,
               << <<INFTY, 0, 0, 0>>, <<0, 0, 0, 0>> >> >>],  \* initial state dead
    \* three ways into the goal V=2, the last one through V=3
    [init |-> <<0, 0>>, goal |-> {<<1, 2>>},
     ops |-> << Move(0, 1, 1), Move(1, 2, 1), Move(0, 2, 5), Move(0, 3, 6), Move(3, 2, 1) >>,
     hs |-> << Zero >>],
    \* three successors with equal f, two of them with equal h; the goal W=1
    \* is reached from V=1
    [init |-> <<0, 0>>, goal |-> {<<2, 1>>},
     ops |-> << Move(0, 1, 1), Move(0, 2, 2), Move(0, 3, 1),
                [pre |-> {<<1, 1>>}, eff |-> {Eff(2, 1)}, cost |-> 3] >>,
     hs |-> << << <<3, 2, 1, 2>>, <<0, 0, 0, 0>> >> >>],
    \* the successors of V=1 are an Open node reached on a cheaper path, a
    \* dead end, a Closed node, and one beyond a bound of 3
    [init |-> <<0, 0>>, goal |-> {<<1, 2>>},
     ops |-> << Move(0, 2, 2), Move(0, 1, 1), Move(0, 3, 1), Move(1, 2, 0),
                Move(1, 3, 0), Move(1, 0, 1), Move(1, 1, 2) >>,
     hs |-> << << <<1, 0, 0, INFTY>>, <<0, 0, 0, 0>> >> >>],
    \* S6 with an operator that also changes X: X := 1, Y := 1 if X = 0
    [init |-> <<0, 0>>, goal |-> {<<2, 1>>},
     ops |-> << [pre |-> {<<1, 0>>},
                 eff |-> {Eff(1, 1), CondEff({<<1, 0>>}, 2, 1)}, cost |-> 1] >>,
     hs |-> << << <<1, 0, 0, 0>>, <<0, 0, 0, 0>> >> >>],
    \* the diamond with a second goal W=1 that is reached late, from V=0 only
    [init |-> <<0, 0>>, goal |-> {<<1, 3>>, <<2, 1>>},
     ops |-> << Move(0, 2, 5), Move(0, 1, 1), Move(1, 2, 1), Move(2, 3, 1),
                [pre |-> {<<1, 0>>}, eff |-> {Eff(2, 1)}, cost |-> 9] >>,
     hs |-> << << <<9, INFTY, INFTY, INFTY>>, <<3, 2, 1, 0>> >> >>],
    \* two operators without preconditions and with the same effect
    [init |-> <<0, 0>>, goal |-> {<<1, 1>>, <<2, 1>>},
     ops |-> << [pre |-> {}, eff |-> {Eff(2, 1)}, cost |-> 2], Move(0, 1, 1),
                [pre |-> {}, eff |-> {Eff(2, 1)}, cost |-> 3] >>,
     hs |-> << << <<2, 2, INFTY, INFTY>>, <<1, 0, INFTY, INFTY>> >> >>],
    \* operators with two preconditions that are reached at different costs;
    \* V=1 is needed for both preconditions of the last step
    [init |-> <<0, 0>>, goal |-> {<<1, 3>>},
     ops |-> << Move(0, 1, 1), Move(1, 2, 1),
                [pre |-> {<<1, 1>>, <<2, 0>>}, eff |-> {Eff(2, 1)}, cost |-> 3],
                [pre |-> {<<1, 2>>, <<2, 1>>}, eff |-> {Eff(1, 3)}, cost |-> 1],
                Move(1, 0, 6) >>,
     hs |-> << << <<5, 4, INFTY, 0>>, <<3, 2, 1, 0>> >> >>],
    \* V=3 is reached first on three operators of cost 0 and then, from W=1,
    \* on two operators of cost 1; the goal W=1 lies one operator of cost 1
    \* behind V=3
    [init |-> <<0, 0>>, goal |-> {<<1, 3>>, <<2, 1>>},
     ops |-> << [pre |-> {<<1, 0>>, <<2, 0>>}, eff |-> {Eff(1, 1)}, cost |-> 0],
                Move(1, 2, 0), Move(2, 3, 0),
                [pre |-> {<<1, 3>>, <<2, 0>>}, eff |-> {Eff(2, 1)}, cost |-> 1],
                [pre |-> {<<1, 0>>, <<2, 0>>}, eff |-> {Eff(2, 1)}, cost |-> 1],
                [pre |-> {<<1, 0>>, <<2, 1>>}, eff |-> {Eff(1, 3), Eff(2, 0)}, cost |-> 1] >>,
     hs |-> << << <<0, 0, 0, 0>>, <<2, 0, 0, 0>> >> >>]
>>

Task == Tasks[cfg.task]
Ops == Task.ops
NumOps == Len(Ops)

\* OperatorProxy::get_cost
Cost(o) == Ops[o].cost

\* mutant of AdjustedCost: every operator counts 1, whatever the cost_type
AdjustedCostOne(o) == 1

\* get_adjusted_cost(op) under the search's cost_type
AdjustedCost(o) ==
    CASE cfg.cost_type = "NORMAL" -> Cost(o)
      [] cfg.cost_type = "ONE" -> 1
      [] cfg.cost_type = "PLUSONE" -> Cost(o) + 1

Holds(s, facts) == \A f \in facts : s[f[1]] = f[2]

\* task_properties::is_goal_state
IsGoal(s) == Holds(s, Task.goal)

Applicable(s, o) == Holds(s, Ops[o].pre)

\* StateRegistry::get_successor_state: effect conditions are tested on the parent
SuccState(s, o) ==
    [v \in DOMAIN s |->
        IF \E e \in Ops[o].eff : e.var = v /\ Holds(s, e.cond)
        THEN (CHOOSE e \in Ops[o].eff : e.var = v /\ Holds(s, e.cond)).val
        ELSE s[v]]

\* the estimate the configured heuristic computes for state s
Heur(s) == Task.hs[cfg.heur][s[2] + 1][s[1] + 1]


---------------------------------------------------------------------------
(* State registry and search space *)

\* SearchNodeInfo of a state that was never opened
NewNode == [status |-> "NEW", g |-> -1, real_g |-> -1, parent |-> 0, op |-> 0]

IsRegistered(r, s) == \E i \in 1..Len(r) : r[i] = s
IdOf(r, s) == CHOOSE i \in 1..Len(r) : r[i] = s

\* StateRegistry::insert_id_or_pop_state: a known state keeps its id
Register(r, s) == IF IsRegistered(r, s) THEN r ELSE Append(r, s)

\* SearchSpace::get_node: a node exists for every registered state
NodesFor(nd, r) == [i \in 1..Len(r) |-> IF i <= Len(nd) THEN nd[i] ELSE NewNode]
CacheFor(c, r) == [i \in 1..Len(r) |-> IF i <= Len(c) THEN c[i] ELSE NO_VALUE]

\* SearchNode::open_initial
OpenInitial(nd) ==
    [nd EXCEPT !.status = "OPEN", !.g = 0, !.real_g = 0, !.parent = 0, !.op = 0]

\* SearchNode::update_parent: g, real_g, parent and creating operator of the new path
UpdateParent(nd, pid, pnd, o) ==
    [nd EXCEPT !.g = pnd.g + AdjustedCost(o), !.real_g = pnd.real_g + Cost(o),
               !.parent = pid, !.op = o]

\* SearchNode::open_new_node
OpenNewNode(nd, pid, pnd, o) == [UpdateParent(nd, pid, pnd, o) EXCEPT !.status = "OPEN"]

\* SearchNode::update_open_node_parent
UpdateOpenNodeParent(nd, pid, pnd, o) == UpdateParent(nd, pid, pnd, o)

\* SearchNode::reopen_closed_node
ReopenClosedNode(nd, pid, pnd, o) == [UpdateParent(nd, pid, pnd, o) EXCEPT !.status = "OPEN"]

\* SearchNode::update_closed_node_parent: the node keeps its g, only the
\* parent pointer and the creating operator change
UpdateClosedNodeParent(nd, pid, o) == [nd EXCEPT !.parent = pid, !.op = o]

\* SearchNode::close
Close(nd) == [nd EXCEPT !.status = "CLOSED"]

\* SearchNode::mark_as_dead_end
MarkAsDeadEnd(nd) == [nd EXCEPT !.status = "DEAD_END"]

\* SearchSpace::trace_path: the operators on the parent chain of id, first
\* operator first.  fuel bounds the walk by the number of registered states.
RECURSIVE TracePathFrom(_, _, _)
TracePathFrom(nd, id, fuel) ==
    IF nd[id].parent = 0 \/ fuel = 0 THEN << >>
    ELSE Append(TracePathFrom(nd, nd[id].parent, fuel - 1), nd[id].op)

TracePath(nd, id) == TracePathFrom(nd, id, Len(nd))

---------------------------------------------------------------------------
(* Open list and evaluators *)

\* sort key of an entry, the tuple of the values of the open list's
\* evaluators: g, h, f = g + h, or f with ties broken by h (tiebreaking
\* open list)
Key(g, h) ==
    CASE cfg.olist = "g" -> << g >>
      [] cfg.olist = "h" -> << h >>
      [] cfg.olist = "f" -> << g + h >>
      [] cfg.olist = "fh" -> << g + h, h >>

\* lexicographic order of two keys of the same open list
KeyLess(a, b) ==
    \E k \in 1..Len(a) : a[k] < b[k] /\ \A j \in 1..(k - 1) : a[j] = b[j]

\* OpenList::is_dead_end: some evaluator of the list returns infinity
IsDeadEnd(h) == cfg.olist # "g" /\ h = INFTY

\* OpenList::insert: nothing is inserted for a dead end
Insert(entries, g, h, id) ==
    IF IsDeadEnd(h) THEN entries ELSE Append(entries, [key |-> Key(g, h), id |-> id])

\* position of the entry remove_min returns: smallest key, earliest inserted
MinIndex(entries) ==
    CHOOSE i \in 1..Len(entries) :
        \A j \in 1..Len(entries) :
            \/ KeyLess(entries[i].key, entries[j].key)
            \/ entries[i].key = entries[j].key /\ i <= j

\* OpenList::remove_min
RemoveMin(entries) ==
    [j \in 1..(Len(entries) - 1) |->
        IF j < MinIndex(entries) THEN entries[j] ELSE entries[j + 1]]

\* the estimate an evaluation context obtains for a state: computed by the
\* heuristic when the open list uses one
Estimate(s) == IF cfg.olist = "g" THEN NO_VALUE ELSE Heur(s)

Event(ev, id, x, y) == [ev |-> ev, id |-> id, x |-> x, y |-> y]
Inc(st, field) == [st EXCEPT ![field] = @ + 1]

---------------------------------------------------------------------------
(* Construction *)

CostTypes == {"NORMAL", "ONE", "PLUSONE"}
BoundValues == (1..MaxBound) \cup {INFTY}

\* The options EagerSearch is constructed with.  pruned is the set of
\* operators the pruning method removes from every applicable-operator list
\* (empty for the null pruning method).  A lazy evaluator is the heuristic of
\* an f-ordered open list (it is an option of astar only); caches is what
\* its does_cache_estimates() returns (TRUE where there is no lazy evaluator).
Options ==
    { c \in [task : 1..Len(Tasks), heur : 1..3, olist : {"g", "h", "f", "fh"},
             reopen : BOOLEAN, bound : BoundValues, cost_type : CostTypes,
             lazy : BOOLEAN, caches : BOOLEAN, pruned : {{}, {1}}] :
        /\ c.heur <= Len(Tasks[c.task].hs)
        /\ c.olist = "g" => c.heur = 1
        /\ c.lazy => c.olist = "f"
        /\ ~c.lazy => c.caches
        /\ c.pruned # {} => (~c.lazy /\ c.cost_type = "NORMAL" /\ c.heur = 1) }

\* mutant of LazyEvaluatorRejected: the constructor accepts every evaluator
LazyEvaluatorRejectedNever(c) == FALSE

\* line 37: a lazy evaluator that does not cache its estimates
LazyEvaluatorRejected(c) == c.lazy /\ ~c.caches

\* the options with which the construction of EagerSearch succeeds
Configs == {c \in Options : ~LazyEvaluatorRejected(c)}

\* no heuristic computation is going on
HeuristicIdle ==
    /\ hpc = "none"
    /\ hstate = << >>
    /\ queue = {}
    /\ prop_cost = << >>
    /\ op_cost = << >>
    /\ unsatisfied_preconditions = << >>
    /\ unsolved_goals = 0
    /\ total_cost = NO_VALUE

\* no OperatorCountingHeuristic is being constructed
CountingIdle ==
    /\ oc = << >>
    /\ opc = "none"
    /\ lp_variables = << >>
    /\ initialised = << >>
    /\ lp_loaded = << >>

\* no container was constructed
StorageIdle ==
    /\ sv = << >>
    /\ segments = << >>
    /\ the_size = 0
    /\ allocated = 0
    /\ freed = {}
    /\ pushed = << >>
    /\ high = 0
    /\ reused = FALSE

\* the members of a search that has not run yet
Unstarted ==
    /\ status = "IN_PROGRESS"
    /\ reg = << >>
    /\ node = << >>
    /\ open = << >>
    /\ hc = << >>
    /\ stats = [expanded |-> 0, generated |-> 0, evaluated_states |-> 0,
                dead_ends |-> 0, reopened |-> 0]
    /\ cur = 0
    /\ todo = << >>
    /\ plan = << >>
    /\ lazy_used = 0
    /\ log = << >>

Init ==
    /\ CountingIdle
    /\ HeuristicIdle
    /\ StorageIdle
    /\ cfg \in Configs
    /\ pc = "initialize"
    /\ Unstarted

\* the constructor is about to run on some options
ConstructInit ==
    /\ CountingIdle
    /\ HeuristicIdle
    /\ StorageIdle
    /\ cfg \in Options
    /\ pc = "construct"
    /\ Unstarted

\* EagerSearch::EagerSearch: the members are set from the options; with a
\* lazy evaluator that does not cache its estimates the process exits with
\* SEARCH_INPUT_ERROR
Construct ==
    /\ pc = "construct"
    /\ IF LazyEvaluatorRejected(cfg)
       THEN pc' = "exited" /\ status' = "SEARCH_INPUT_ERROR"
       ELSE pc' = "initialize" /\ status' = status
    /\ UNCHANGED <<others, cfg, reg, node, open, hc, stats, cur, todo, plan, lazy_used, log>>

---------------------------------------------------------------------------
(* EagerSearch::initialize *)

\* mutant of InitialIsDeadEnd: the dead-end test of line 93 is missing
InitialIsDeadEndNever(h) == FALSE

\* line 93: the open list reports the initial state as a dead end
InitialIsDeadEnd(h) == IsDeadEnd(h)

Initialize ==
    /\ pc = "initialize"
    /\ LET s0 == Task.init
           h0 == Estimate(s0)
       IN /\ reg' = Register(reg, s0)
          /\ hc' = << h0 >>
          /\ stats' = Inc(stats, "evaluated_states")
          /\ IF InitialIsDeadEnd(h0)
             THEN /\ node' = << NewNode >>
                  /\ open' = open
                  /\ log' = << Event("notify_initial_state", 1, 0, 0),
                               Event("evaluate", 1, 0, h0) >>
             ELSE /\ node' = << OpenInitial(NewNode) >>
                  /\ open' = Insert(open, 0, h0, 1)
                  /\ log' = << Event("notify_initial_state", 1, 0, 0),
                               Event("evaluate", 1, 0, h0),
                               Event("open_initial", 1, 0, 0),
                               Event("insert", 1, 0, Key(0, h0)) >>
    /\ pc' = "next_node"
    /\ UNCHANGED <<others, cfg, status, cur, todo, plan, lazy_used>>

---------------------------------------------------------------------------
(* EagerSearch::step: get_next_node_to_expand, then expand *)

\* mutant of Popped: the entry inserted first, whatever its key
PoppedFirst == open[1]

\* the entry remove_min returns
Popped == open[MinIndex(open)]

\* mutant of PopIsStale: entries of closed nodes are not recognised
PopIsStaleNever(id) == FALSE

\* line 133: the popped entry belongs to a node that is already closed
PopIsStale(id) == node[id].status = "CLOSED"

\* mutant of PopIsDead: the dead-end test of line 158 is missing
PopIsDeadNever(id) == FALSE

\* line 158: the popped entry belongs to a dead end (lazy evaluators only)
PopIsDead(id) == cfg.lazy /\ node[id].status = "DEAD_END"

\* mutant of LazyCached: no estimate is taken as cached
LazyCachedNever(id) == FALSE

\* mutant of LazyCached: the test for a lazy evaluator of line 142 is missing
LazyCachedAlways(id) == hc[id] # NO_VALUE

\* lines 142 and 161: a lazy evaluator is configured and
\* lazy_evaluator->is_estimate_cached(s) holds
LazyCached(id) == cfg.lazy /\ hc[id] # NO_VALUE

\* the estimates a lazy evaluator may return for a state whose cached
\* estimate is old: the cached one, or (its heuristic being path dependent)
\* a larger one or infinity
LazyEstimates(old) ==
    IF lazy_used < MaxLazyChanges /\ old # INFTY THEN {old, old + 1, INFTY} ELSE {old}

\* lines 118-122: the open list is empty, the search fails
StepFailed ==
    /\ pc = "next_node"
    /\ open = << >>
    /\ status' = "FAILED"
    /\ pc' = "finished"
    /\ UNCHANGED <<others, cfg, reg, node, open, hc, stats, cur, todo, plan, lazy_used, log>>

\* lines 129-134: an entry of a closed node is dropped
PopClosed ==
    /\ pc = "next_node"
    /\ open # << >>
    /\ PopIsStale(Popped.id)
    /\ open' = RemoveMin(open)
    /\ log' = Append(log, Event("remove_min", Popped.id, 0, Popped.key))
    /\ UNCHANGED <<others, cfg, pc, status, reg, node, hc, stats, cur, todo, plan, lazy_used>>

\* lines 158-159: an entry of a dead end is dropped
PopDeadEnd ==
    /\ pc = "next_node"
    /\ open # << >>
    /\ ~PopIsStale(Popped.id)
    /\ PopIsDead(Popped.id)
    /\ open' = RemoveMin(open)
    /\ log' = Append(log, Event("remove_min", Popped.id, 0, Popped.key))
    /\ UNCHANGED <<others, cfg, pc, status, reg, node, hc, stats, cur, todo, plan, lazy_used>>

\* lines 161-169: the re-evaluated node is a dead end for the open list
PopLazyDeadEnd ==
    /\ pc = "next_node"
    /\ open # << >>
    /\ LET id == Popped.id
       IN /\ ~PopIsStale(id)
          /\ ~PopIsDead(id)
          /\ LazyCached(id)
          /\ \E new_h \in LazyEstimates(hc[id]) :
                /\ IsDeadEnd(new_h)
                /\ hc' = [hc EXCEPT ![id] = new_h]
                /\ node' = [node EXCEPT ![id] = MarkAsDeadEnd(@)]
                /\ stats' = Inc(stats, "dead_ends")
                /\ log' = log \o << Event("remove_min", id, 0, Popped.key),
                                    Event("evaluate", id, node[id].g, new_h),
                                    Event("mark_as_dead_end", id, 0, 0) >>
          /\ open' = RemoveMin(open)
          /\ lazy_used' = lazy_used + 1
    /\ UNCHANGED <<others, cfg, pc, status, reg, cur, todo, plan>>

\* lines 170-173: the estimate changed, the node is inserted again
PopLazyReinsert ==
    /\ pc = "next_node"
    /\ open # << >>
    /\ LET id == Popped.id
       IN /\ ~PopIsStale(id)
          /\ ~PopIsDead(id)
          /\ LazyCached(id)
          /\ \E new_h \in LazyEstimates(hc[id]) :
                /\ ~IsDeadEnd(new_h)
                /\ new_h # hc[id]
                /\ hc' = [hc EXCEPT ![id] = new_h]
                /\ open' = Insert(RemoveMin(open), node[id].g, new_h, id)
                /\ log' = log \o << Event("remove_min", id, 0, Popped.key),
                                    Event("evaluate", id, node[id].g, new_h),
                                    Event("insert", id, node[id].g, Key(node[id].g, new_h)) >>
          /\ lazy_used' = lazy_used + 1
    /\ UNCHANGED <<others, cfg, pc, status, reg, node, stats, cur, todo, plan>>

\* lines 161-174 fall through: the lazy evaluator returns the cached estimate
\* again and the open list reports no dead end
LazyUnchanged(id) == hc[id] \in LazyEstimates(hc[id]) /\ ~IsDeadEnd(hc[id])

\* mutant of ApplicableOperators: only the first applicable operator is kept
ApplicableOperatorsFirst(s) ==
    LET ops == SelectSeq([o \in 1..NumOps |-> o],
                         LAMBDA o : Applicable(s, o) /\ o \notin cfg.pruned)
    IN  IF ops = << >> THEN << >> ELSE << Head(ops) >>

\* successor_generator.generate_applicable_ops followed by
\* pruning_method->prune_operators (lines 212-219), in operator order
ApplicableOperators(s) ==
    SelectSeq([o \in 1..NumOps |-> o],
              LAMBDA o : Applicable(s, o) /\ o \notin cfg.pruned)

\* mutant of GoalReached: no state is recognised as a goal state
GoalReachedNever(s) == FALSE

\* line 202: check_goal_and_set_plan
GoalReached(s) == IsGoal(s)

\* lines 177-180 and expand (198-207): the node is closed and expanded; on a
\* goal state the plan is traced and the search is solved, otherwise the
\* loop over its applicable operators starts
PopExpand ==
    /\ pc = "next_node"
    /\ open # << >>
    /\ LET id == Popped.id
           closed == [node EXCEPT ![id] = Close(@)]
       IN /\ ~PopIsStale(id)
          /\ ~PopIsDead(id)
          /\ LazyCached(id) => LazyUnchanged(id)
          /\ open' = RemoveMin(open)
          /\ node' = closed
          /\ stats' = Inc(stats, "expanded")
          /\ log' = log \o << Event("remove_min", id, 0, Popped.key) >>
                         \o (IF LazyCached(id)
                             THEN << Event("evaluate", id, node[id].g, hc[id]) >>
                             ELSE << >>)
                         \o << Event("close", id, 0, 0) >>
          /\ IF GoalReached(reg[id])
             THEN /\ plan' = TracePath(closed, id)
                  /\ status' = "SOLVED"
                  /\ pc' = "finished"
                  /\ cur' = id
                  /\ todo' = << >>
             ELSE /\ plan' = plan
                  /\ status' = "IN_PROGRESS"
                  /\ pc' = "generate"
                  /\ cur' = id
                  /\ todo' = ApplicableOperators(reg[id])
    /\ UNCHANGED <<others, cfg, reg, hc, lazy_used>>

---------------------------------------------------------------------------
(* EagerSearch::generate_successors: one iteration of the loop of line 225 *)

\* mutant of BoundPrunes: > instead of >=
BoundPrunesStrict(n, o) == node[n].real_g + Cost(o) > cfg.bound

\* mutant of BoundPrunes: the bound is compared with the adjusted g
BoundPrunesAdjusted(n, o) == node[n].g + AdjustedCost(o) >= cfg.bound

\* line 227: the operator is skipped because of the (real) cost bound
BoundPrunes(n, o) == node[n].real_g + Cost(o) >= cfg.bound

\* the value an effect of o on variable v gives it when its condition holds
\* in s, the value v has in now without such an effect
EffectOn(s, now, o, v) ==
    IF \E e \in Ops[o].eff : e.var = v /\ Holds(s, e.cond)
    THEN (CHOOSE e \in Ops[o].eff : e.var = v /\ Holds(s, e.cond)).val
    ELSE now[v]

\* mutant of SuccOf: the effects are applied variable by variable and the
\* conditions tested on the partially updated state
SuccOfSequential(o) ==
    LET s1 == [reg[cur] EXCEPT ![1] = EffectOn(reg[cur], reg[cur], o, 1)]
    IN [s1 EXCEPT ![2] = EffectOn(s1, s1, o, 2)]

\* line 230: the successor state and the registry after registering it
SuccOf(o) == SuccState(reg[cur], o)

\* mutant of RegAfter: every call registers a new entry
RegAfterAlwaysNew(o) == Append(reg, SuccOf(o))

RegAfter(o) == Register(reg, SuccOf(o))
SuccId(o) == IdOf(RegAfter(o), SuccOf(o))

\* line 233: the successor's node
SuccNode(o) == NodesFor(node, RegAfter(o))[SuccId(o)]

\* mutant of SuccG: the context carries the true cost of the path
SuccGTrueCost(n, o) == node[n].real_g + Cost(o)

\* line 253: succ_g of a new node
SuccG(n, o) == node[n].g + AdjustedCost(o)

\* mutant of FoundCheaper: >= instead of >
FoundCheaperOrEqual(o) == SuccNode(o).g >= node[cur].g + AdjustedCost(o)

\* mutant of FoundCheaper: the comparison is reversed
FoundCheaperReversed(o) == SuccNode(o).g < node[cur].g + AdjustedCost(o)

\* mutant of FoundCheaper: a cheaper path is never recognised
FoundCheaperNever(o) == FALSE

\* line 271: the new path is strictly cheaper than the recorded one
FoundCheaper(o) == SuccNode(o).g > node[cur].g + AdjustedCost(o)

\* mutant of ReopenAllowed: the option is ignored
ReopenAlways == TRUE

\* line 279: closed nodes are reopened only when reopen_closed is set
ReopenAllowed == cfg.reopen

\* mutant of Notify: parent and successor are exchanged
NotifySwapped(o) == Event("notify_state_transition", cur, SuccId(o), o)

\* lines 235-237: every path-dependent evaluator is told of the transition
Notify(o) == Event("notify_state_transition", SuccId(o), cur, o)

\* what every iteration that is not skipped by the bound does first
\* (lines 230-237), and what no iteration changes
Generate(o) ==
    /\ pc = "generate"
    /\ todo # << >>
    /\ o = Head(todo)
    /\ ~BoundPrunes(cur, o)
    /\ todo' = Tail(todo)
    /\ reg' = RegAfter(o)
    /\ UNCHANGED <<others, cfg, pc, status, cur, plan, lazy_used>>

\* lines 227-228
SkipBound ==
    /\ pc = "generate"
    /\ todo # << >>
    /\ BoundPrunes(cur, Head(todo))
    /\ todo' = Tail(todo)
    /\ UNCHANGED <<others, cfg, pc, status, reg, node, open, hc, stats, cur, plan, lazy_used, log>>

\* lines 240-241: the successor is a known dead end
SuccDeadEnd ==
    \E o \in 1..NumOps :
        /\ Generate(o)
        /\ SuccNode(o).status = "DEAD_END"
        /\ stats' = Inc(stats, "generated")
        /\ log' = Append(log, Notify(o))
        /\ UNCHANGED <<node, open, hc>>

\* mutant of SuccNewDeadEnd: the continue of line 262 is missing, the dead
\* end gets an entry in the open list
SuccNewDeadEndInserted ==
    \E o \in 1..NumOps :
        /\ Generate(o)
        /\ SuccNode(o).status = "NEW"
        /\ LET sid == SuccId(o)
               h == Estimate(SuccOf(o))
           IN /\ IsDeadEnd(h)
              /\ node' = [NodesFor(node, RegAfter(o)) EXCEPT ![sid] = MarkAsDeadEnd(@)]
              /\ hc' = [CacheFor(hc, RegAfter(o)) EXCEPT ![sid] = h]
              /\ open' = Append(open, [key |-> Key(SuccG(cur, o), 0), id |-> sid])
              /\ stats' = Inc(Inc(Inc(stats, "generated"), "evaluated_states"), "dead_ends")
              /\ log' = log \o << Notify(o),
                                  Event("evaluate", sid, SuccG(cur, o), h),
                                  Event("mark_as_dead_end", sid, 0, 0) >>

\* lines 244-263: the successor is new and the open list reports a dead end
SuccNewDeadEnd ==
    \E o \in 1..NumOps :
        /\ Generate(o)
        /\ SuccNode(o).status = "NEW"
        /\ LET sid == SuccId(o)
               h == Estimate(SuccOf(o))
           IN /\ IsDeadEnd(h)
              /\ node' = [NodesFor(node, RegAfter(o)) EXCEPT ![sid] = MarkAsDeadEnd(@)]
              /\ hc' = [CacheFor(hc, RegAfter(o)) EXCEPT ![sid] = h]
              /\ open' = open
              /\ stats' = Inc(Inc(Inc(stats, "generated"), "evaluated_states"), "dead_ends")
              /\ log' = log \o << Notify(o),
                                  Event("evaluate", sid, SuccG(cur, o), h),
                                  Event("mark_as_dead_end", sid, 0, 0) >>

\* lines 244-270: the successor is new; it is opened and inserted
SuccNewOpen ==
    \E o \in 1..NumOps :
        /\ Generate(o)
        /\ SuccNode(o).status = "NEW"
        /\ LET sid == SuccId(o)
               h == Estimate(SuccOf(o))
               opened == OpenNewNode(NewNode, cur, node[cur], o)
           IN /\ ~IsDeadEnd(h)
              /\ node' = [NodesFor(node, RegAfter(o)) EXCEPT ![sid] = opened]
              /\ hc' = [CacheFor(hc, RegAfter(o)) EXCEPT ![sid] = h]
              /\ open' = Insert(open, SuccG(cur, o), h, sid)
              /\ stats' = Inc(Inc(stats, "generated"), "evaluated_states")
              /\ log' = log \o << Notify(o),
                                  Event("evaluate", sid, SuccG(cur, o), h),
                                  Event("open_new_node", sid, cur, o),
                                  Event("insert", sid, SuccG(cur, o), Key(SuccG(cur, o), h)) >>

\* lines 271-278: a cheaper path to an open node; new parent, inserted again
SuccCheaperOpen ==
    \E o \in 1..NumOps :
        /\ Generate(o)
        /\ SuccNode(o).status = "OPEN"
        /\ FoundCheaper(o)
        /\ LET sid == SuccId(o)
               updated == UpdateOpenNodeParent(node[sid], cur, node[cur], o)
           IN /\ node' = [node EXCEPT ![sid] = updated]
              /\ open' = Insert(open, updated.g, hc[sid], sid)
              /\ stats' = Inc(stats, "generated")
              /\ log' = log \o << Notify(o),
                                  Event("update_open_node_parent", sid, cur, o),
                                  Event("insert", sid, updated.g, Key(updated.g, hc[sid])) >>
        /\ UNCHANGED hc

\* lines 279-291: a cheaper path to a closed node, which is reopened
SuccReopen ==
    \E o \in 1..NumOps :
        /\ Generate(o)
        /\ SuccNode(o).status = "CLOSED"
        /\ FoundCheaper(o)
        /\ ReopenAllowed
        /\ LET sid == SuccId(o)
               reopened == ReopenClosedNode(node[sid], cur, node[cur], o)
           IN /\ node' = [node EXCEPT ![sid] = reopened]
              /\ open' = Insert(open, reopened.g, hc[sid], sid)
              /\ stats' = Inc(Inc(stats, "generated"), "reopened")
              /\ log' = log \o << Notify(o),
                                  Event("reopen_closed_node", sid, cur, o),
                                  Event("insert", sid, reopened.g, Key(reopened.g, hc[sid])) >>
        /\ UNCHANGED hc

\* lines 292-301: a cheaper path to a closed node without reopening
SuccUpdateClosedParent ==
    \E o \in 1..NumOps :
        /\ Generate(o)
        /\ SuccNode(o).status = "CLOSED"
        /\ FoundCheaper(o)
        /\ ~ReopenAllowed
        /\ LET sid == SuccId(o)
           IN /\ node' = [node EXCEPT ![sid] = UpdateClosedNodeParent(@, cur, o)]
              /\ stats' = Inc(stats, "generated")
              /\ log' = log \o << Notify(o),
                                  Event("update_closed_node_parent", sid, cur, o) >>
        /\ UNCHANGED <<open, hc>>

\* lines 302-307: an equally or more expensive path; nothing to do
SuccNoChange ==
    \E o \in 1..NumOps :
        /\ Generate(o)
        /\ SuccNode(o).status \in {"OPEN", "CLOSED"}
        /\ ~FoundCheaper(o)
        /\ stats' = Inc(stats, "generated")
        /\ log' = Append(log, Notify(o))
        /\ UNCHANGED <<node, open, hc>>

\* line 206: the loop is over, step returns IN_PROGRESS
GenerateDone ==
    /\ pc = "generate"
    /\ todo = << >>
    /\ pc' = "next_node"
    /\ cur' = 0
    /\ UNCHANGED <<others, cfg, status, reg, node, open, hc, stats, todo, plan, lazy_used, log>>

Next ==
    \/ Initialize
    \/ StepFailed
    \/ PopClosed
    \/ PopDeadEnd
    \/ PopLazyDeadEnd
    \/ PopLazyReinsert
    \/ PopExpand
    \/ SkipBound
    \/ SuccDeadEnd
    \/ SuccNewDeadEnd
    \/ SuccNewOpen
    \/ SuccCheaperOpen
    \/ SuccReopen
    \/ SuccUpdateClosedParent
    \/ SuccNoChange
    \/ GenerateDone

Spec == Init /\ [][Next]_vars

---------------------------------------------------------------------------
(* Reference notions the properties are stated with *)

\* the state reached by applying the operators of p in order from s, or
\* << >> when one of them is not applicable where it is applied
RECURSIVE Exec(_, _)
Exec(s, p) ==
    IF p = << >> THEN s
    ELSE IF Applicable(s, Head(p)) THEN Exec(SuccState(s, Head(p)), Tail(p))
    ELSE << >>

\* true and adjusted cost of an operator sequence
RECURSIVE PlanCost(_)
PlanCost(p) == IF p = << >> THEN 0 ELSE Cost(Head(p)) + PlanCost(Tail(p))

RECURSIVE AdjustedPlanCost(_)
AdjustedPlanCost(p) ==
    IF p = << >> THEN 0 ELSE AdjustedCost(Head(p)) + AdjustedPlanCost(Tail(p))

\* executing an operator sequence of task t from its initial state
RECURSIVE ExecIn(_, _, _)
ExecIn(t, s, p) ==
    IF p = << >> THEN s
    ELSE IF \A f \in Tasks[t].ops[Head(p)].pre : s[f[1]] = f[2]
         THEN ExecIn(t,
                     [v \in DOMAIN s |->
                        LET effs == {e \in Tasks[t].ops[Head(p)].eff :
                                        e.var = v /\ \A f \in e.cond : s[f[1]] = f[2]}
                        IN IF effs = {} THEN s[v] ELSE (CHOOSE e \in effs : TRUE).val],
                     Tail(p))
         ELSE << >>

RECURSIVE CostIn(_, _)
CostIn(t, p) == IF p = << >> THEN 0 ELSE Tasks[t].ops[Head(p)].cost + CostIn(t, Tail(p))

\* the operator sequences of task t of length at most MaxPlanLen that are
\* plans: executable from the initial state, ending in a goal state
PlansOf(t) ==
    {p \in UNION {[1..k -> 1..Len(Tasks[t].ops)] : k \in 0..MaxPlanLen} :
        LET s == ExecIn(t, Tasks[t].init, p)
        IN s # << >> /\ \A f \in Tasks[t].goal : s[f[1]] = f[2]}

MinOf(S) == CHOOSE x \in S : \A y \in S : x <= y

\* true cost of a cheapest plan of each task, INFTY if it has none (a
\* cheapest plan of any of the tasks has at most four operators)
OptCostOf == [t \in 1..Len(Tasks) |-> MinOf({INFTY} \cup {CostIn(t, p) : p \in PlansOf(t)})]

OptCost == OptCostOf[cfg.task]

\* how often a log records event ev for state id
CountIn(l, ev, id) == Cardinality({k \in 1..Len(l) : l[k].ev = ev /\ l[k].id = id})
Count(ev, id) == CountIn(log, ev, id)

\* the status of id before a step; a state not yet registered is New
StatusOf(nd, i) == IF i <= Len(nd) THEN nd[i].status ELSE "NEW"

---------------------------------------------------------------------------
(* Properties *)

\* C1: whenever step returns SOLVED, the plan is the parent chain of the node
\* just closed; every operator of it is applicable where it is applied,
\* starting from the initial state, the state it leads to is that node's
\* state, and that state satisfies every goal fact.
C1_SolvedPlanIsValid ==
    status = "SOLVED" =>
        /\ node[cur].status = "CLOSED"
        /\ plan = TracePath(node, cur)
        /\ Exec(Task.init, plan) = reg[cur]
        /\ Holds(reg[cur], Task.goal)

\* C1 happens: a plan of three operators was returned although the goal
\* was first generated on another path
C1_Witness ==
    /\ status = "SOLVED"
    /\ Len(plan) = 3
    /\ \E k \in 1..Len(log) : log[k].ev \in {"update_open_node_parent",
                                             "update_closed_node_parent",
                                             "reopen_closed_node"}

\* C2: a status changes (other than into DeadEnd) only New -> Open,
\* Open -> Closed or Closed -> Open, and Closed -> Open only with
\* reopen_closed set, for the successor of the operator being looked at, when
\* node.g + adjusted_cost(op) is below the successor's recorded g.
C2_StatusTransitions ==
    [][\A i \in 1..Len(node') :
          LET old == StatusOf(node, i)
              new == node'[i].status
          IN (old # new /\ new # "DEAD_END") =>
                \/ old = "NEW" /\ new = "OPEN"
                \/ old = "OPEN" /\ new = "CLOSED"
                \/ /\ old = "CLOSED" /\ new = "OPEN"
                   /\ cfg.reopen
                   /\ pc = "generate" /\ todo # << >>
                   /\ reg[i] = SuccState(reg[cur], Head(todo))
                   /\ node[cur].g + AdjustedCost(Head(todo)) < node[i].g]_vars

\* C2 happens: a node was reopened and has been closed again
C2_Witness ==
    \E i \in 1..Len(node) :
        /\ node[i].status = "CLOSED"
        /\ Count("reopen_closed_node", i) >= 1
        /\ Count("close", i) >= 2

\* a popped entry whose node is Closed is dropped and nothing else changes
C3_StaleDropped ==
    [][(pc = "next_node" /\ open # << >> /\ node[Popped.id].status = "CLOSED") =>
          /\ open' = RemoveMin(open)
          /\ UNCHANGED <<pc, status, reg, node, hc, stats, cur, todo, plan>>]_vars

\* how often state i was opened or reopened
C3_Opened(i) ==
    Count("open_initial", i) + Count("open_new_node", i) + Count("reopen_closed_node", i)

\* a state is closed once per opening, and at most once without reopening
C3_ExpandedOncePerOpening ==
    \A i \in 1..Len(node) :
        /\ Count("close", i) <= C3_Opened(i)
        /\ node[i].status = "CLOSED" => Count("close", i) = C3_Opened(i)
        /\ node[i].status = "OPEN" => Count("close", i) = C3_Opened(i) - 1
        /\ ~cfg.reopen => Count("close", i) <= 1

\* C3: a popped entry whose node is Closed is dropped and nothing else
\* changes (no node, no counter); so every state is closed once for each
\* time it was opened or reopened (once less while it is still open), and
\* at most once without reopening.
C3_StaleEntriesSkipped == C3_StaleDropped /\ []C3_ExpandedOncePerOpening

\* C3 happens: a stale entry was popped (a remove_min that no close follows)
\* of a state with two entries, without a lazy evaluator
C3_Witness ==
    /\ ~cfg.lazy
    /\ \E k \in 1..(Len(log) - 1) :
          /\ log[k].ev = "remove_min"
          /\ log[k + 1].ev = "remove_min"
          /\ Count("insert", log[k].id) >= 2
          /\ Count("close", log[k].id) = 1

\* the parent chain of a closed node is a path from the initial state to
\* the node's state
ChainLeadsTo(i) == Exec(Task.init, TracePath(node, i)) = reg[i]

\* C4 as stated: for every Closed node the parent chain is applicable from
\* the initial state, leads to the node's state and has adjusted cost equal
\* to the node's recorded g.
C4_ClosedChainCostEqualsG ==
    \A i \in 1..Len(node) :
        node[i].status = "CLOSED" =>
            /\ ChainLeadsTo(i)
            /\ AdjustedPlanCost(TracePath(node, i)) = node[i].g

\* C4 amended: for every Closed node the parent chain is applicable from the
\* initial state, leads to the node's state and has adjusted cost at most
\* the node's recorded g.
C4_ClosedChainCostAtMostG ==
    \A i \in 1..Len(node) :
        node[i].status = "CLOSED" =>
            /\ ChainLeadsTo(i)
            /\ AdjustedPlanCost(TracePath(node, i)) <= node[i].g

\* C4 happens: a Closed node with a parent whose chain is cheaper than its g
C4_Witness ==
    \E i \in 1..Len(node) :
        /\ node[i].status = "CLOSED"
        /\ node[i].parent # 0
        /\ ChainLeadsTo(i)
        /\ AdjustedPlanCost(TracePath(node, i)) < node[i].g

\* an operator with node.real_g + cost(op) >= bound changes nothing but the
\* loop position
C5_PrunedOperatorHasNoEffect ==
    [][(pc = "generate" /\ todo # << >>
          /\ node[cur].real_g + Ops[Head(todo)].cost >= cfg.bound) =>
          UNCHANGED <<reg, node, open, hc, stats, log, status, plan>>]_vars

\* nodes other than the initial one are opened within the bound; bound 1
\* leaves a task whose cheapest plan costs 2 unsolved
C5_RealGBelowBound ==
    /\ \A i \in 2..Len(node) :
          node[i].status \in {"OPEN", "CLOSED"} => node[i].real_g < cfg.bound
    /\ (cfg.bound = 1 /\ OptCost = 2 /\ pc = "finished") => status = "FAILED"

\* C5: an operator with node.real_g + cost(op) >= bound (true costs) changes
\* nothing but the loop position (no registration, no counter, no
\* notification, no node, no open-list entry); every Open or Closed node
\* other than the initial one has real_g < bound; with bound 1 on a task
\* whose cheapest plan costs 2 the search ends FAILED.
C5_BoundPruning == C5_PrunedOperatorHasNoEffect /\ []C5_RealGBelowBound

\* C5 happens: with bound 1 the search of a task whose cheapest plan costs 2
\* failed after skipping an applicable operator
C5_Witness ==
    /\ cfg.bound = 1
    /\ OptCost = 2
    /\ status = "FAILED"
    /\ stats.expanded = 1
    /\ stats.generated = 0
    /\ Len(reg) = 1

\* an operator the expansion of node i does not skip: applicable, left by
\* the pruning method and within the bound
Followed(i, o) ==
    /\ Holds(reg[i], Ops[o].pre)
    /\ o \notin cfg.pruned
    /\ node[i].real_g + Ops[o].cost < cfg.bound

\* C6: when step returns FAILED the open list is empty and no node is Open;
\* the initial state was closed (unless it was reported dead), every
\* followed operator of a Closed node leads to a registered state that is
\* Closed or DeadEnd, and no Closed state satisfies the goal.  Without bound,
\* pruning and dead ends, FAILED is returned only if the task has no plan.
C6_FailedOnlyWhenExhausted ==
    status = "FAILED" =>
        /\ open = << >>
        /\ \A i \in 1..Len(node) : node[i].status # "OPEN"
        /\ node[1].status = "CLOSED" \/ hc[1] = INFTY
        /\ \A i \in 1..Len(node) :
              node[i].status = "CLOSED" =>
                  /\ ~Holds(reg[i], Task.goal)
                  /\ \A o \in 1..NumOps :
                        Followed(i, o) =>
                            /\ IsRegistered(reg, SuccState(reg[i], o))
                            /\ node[IdOf(reg, SuccState(reg[i], o))].status
                                   \in {"CLOSED", "DEAD_END"}
        /\ ( /\ cfg.bound = INFTY
             /\ cfg.pruned = {}
             /\ node[1].status = "CLOSED"
             /\ \A i \in 1..Len(node) : node[i].status # "DEAD_END" )
           => OptCost = INFTY

\* C6 happens: FAILED without bound, pruning or dead ends on the unsolvable
\* task with operators, after several expansions
C6_Witness ==
    /\ status = "FAILED"
    /\ cfg.bound = INFTY
    /\ cfg.pruned = {}
    /\ \A i \in 1..Len(node) : node[i].status = "CLOSED"
    /\ Len(node) >= 3
    /\ NumOps >= 3

\* the search under the scheduling of its driver, which calls step until it
\* returns SOLVED or FAILED
FairSpec == Init /\ [][Next]_vars /\ WF_vars(Next)

\* a state gets another open-list entry only with a strictly smaller g, and
\* an iteration of the pop loop takes one entry off the open list
C7_Progress ==
    [][~cfg.lazy =>
          /\ \A i \in 1..Len(node) :
                (CountIn(log', "insert", i) > Count("insert", i) /\ Count("insert", i) >= 1)
                    => node'[i].g < node[i].g
          /\ (pc = "next_node" /\ open # << >>) => Len(open') = Len(open) - 1]_vars

\* C7: without a lazy evaluator the search eventually returns SOLVED or
\* FAILED, with and without reopening and with zero-cost operators; a state
\* is inserted again only with a strictly smaller g and every pop removes an
\* entry.
C7_Terminates == (~cfg.lazy => <>(pc = "finished")) /\ C7_Progress

\* C7 happens: a search ended in which a node was reopened through a
\* zero-cost operator and so inserted twice
C7_Witness ==
    /\ pc = "finished"
    /\ ~cfg.lazy
    /\ cfg.reopen
    /\ \E i \in 1..Len(node) :
          /\ Count("reopen_closed_node", i) >= 1
          /\ Ops[node[i].op].cost = 0
          /\ Count("insert", i) >= 2

\* C8: with a g-ordered open list, cost_type Normal, reopening and the null
\* pruning method, the plan returned on SOLVED is a cheapest plan of the
\* task; on the task of scenario S2 it is [op0, op1] with cost 2.
C8_UniformCostIsOptimal ==
    ( /\ status = "SOLVED"
      /\ cfg.olist = "g"
      /\ cfg.cost_type = "NORMAL"
      /\ cfg.reopen
      /\ cfg.pruned = {} )
    => /\ PlanCost(plan) = OptCost
       /\ cfg.task = 2 => (plan = <<1, 2>> /\ PlanCost(plan) = 2)

\* C8 happens: scenario S2 is solved with [op0, op1] after the Open node of
\* V=2, first reached with g = 5, got a new parent and a second entry
C8_Witness ==
    /\ status = "SOLVED"
    /\ cfg.task = 2 /\ cfg.olist = "g" /\ cfg.cost_type = "NORMAL" /\ cfg.reopen
    /\ cfg.pruned = {} /\ cfg.bound = INFTY
    /\ plan = <<1, 2>>
    /\ \E i \in 1..Len(node) :
          /\ reg[i] = <<2, 0>>
          /\ Count("update_open_node_parent", i) = 1
          /\ Count("insert", i) = 2

\* C9: a DeadEnd node stays as it is: no step changes its status, g or
\* parent, re-evaluates it or adds an open-list entry for it, and no step
\* closes or expands it.
C9_DeadEndIsTerminal ==
    [][\A i \in 1..Len(node) :
          node[i].status = "DEAD_END" =>
              /\ node'[i] = node[i]
              /\ hc'[i] = hc[i]
              /\ CountIn(log', "evaluate", i) = Count("evaluate", i)
              /\ CountIn(log', "insert", i) = Count("insert", i)
              /\ CountIn(log', "close", i) = Count("close", i)
              /\ Cardinality({k \in 1..Len(open') : open'[k].id = i})
                    <= Cardinality({k \in 1..Len(open) : open[k].id = i})
              /\ cur' # i]_vars

\* a DeadEnd node for which the log records event ev after it was marked
C9_After(ev) ==
    \E i \in 1..Len(node) :
        /\ node[i].status = "DEAD_END"
        /\ \E k, m \in 1..Len(log) :
              /\ k < m
              /\ log[k].ev = "mark_as_dead_end" /\ log[k].id = i
              /\ log[m].ev = ev /\ log[m].id = i

\* C9 happens: a DeadEnd node was generated again as a successor, and an
\* entry of a DeadEnd node was popped
C9_Witness == C9_After("notify_state_transition") /\ C9_After("remove_min")

\* C10 as stated: a node becomes DeadEnd only from Open or Closed.
C10_DeadEndFromOpenOrClosed ==
    [][\A i \in 1..Len(node') :
          (node'[i].status = "DEAD_END" /\ StatusOf(node, i) # "DEAD_END")
              => StatusOf(node, i) \in {"OPEN", "CLOSED"}]_vars

\* C10 amended: a node becomes DeadEnd only from New, when it is evaluated as
\* a successor in generate_successors, or from Open, when a lazy evaluator
\* re-evaluates it on pop; never from Closed.
C10_DeadEndFromNewOrOpen ==
    [][\A i \in 1..Len(node') :
          (node'[i].status = "DEAD_END" /\ StatusOf(node, i) # "DEAD_END")
              => \/ StatusOf(node, i) = "NEW" /\ pc = "generate"
                 \/ StatusOf(node, i) = "OPEN" /\ pc = "next_node" /\ cfg.lazy]_vars

\* C10 happens: there is a DeadEnd node that was Open before, and one that
\* was never opened
C10_Witness ==
    /\ \E i \in 1..Len(node) :
          node[i].status = "DEAD_END" /\ Count("open_new_node", i) = 1
    /\ \E i \in 1..Len(node) :
          node[i].status = "DEAD_END" /\ Count("open_new_node", i) = 0

\* the open list reports the initial state of the task as a dead end
C11_InitialDead == cfg.olist # "g" /\ Task.hs[cfg.heur][Task.init[2] + 1][Task.init[1] + 1] = INFTY

\* initialize on a dead initial state opens no node and inserts nothing, and
\* the step after it returns FAILED
C11_Steps ==
    [][C11_InitialDead =>
          /\ pc = "initialize" =>
                /\ node'[1].status = "NEW"
                /\ open' = << >>
                /\ \A k \in 1..Len(log') : log'[k].ev \notin {"open_initial", "insert"}
          /\ pc = "next_node" => (pc' = "finished" /\ status' = "FAILED")]_vars

\* after initialize on a dead initial state no node is expanded or generated
C11_NothingExpanded ==
    (C11_InitialDead /\ pc # "initialize") =>
        /\ node[1].status = "NEW"
        /\ open = << >>
        /\ Len(reg) = 1
        /\ stats.expanded = 0
        /\ stats.generated = 0
        /\ \A k \in 1..Len(log) : log[k].ev \in {"notify_initial_state", "evaluate"}
        /\ pc = "finished" => status = "FAILED"

\* C11: if the open list reports the initial state as a dead end during
\* initialize, the initial node is not opened and nothing is inserted into
\* the open list, and the first call to step returns FAILED without expanding
\* or generating any node.
C11_InitialDeadEndFails == C11_Steps /\ []C11_NothingExpanded

\* C11 happens: the search of a task with applicable operators in its initial
\* state failed in its first step because the initial state is a dead end
C11_Witness ==
    /\ C11_InitialDead
    /\ status = "FAILED"
    /\ pc = "finished"
    /\ \E o \in 1..NumOps : Applicable(Task.init, o)
    /\ stats.evaluated_states = 1

\* the operator the loop of generate_successors looks at leads, within the
\* bound, to a Closed node on a strictly cheaper path
C12_CheaperPathToClosed ==
    /\ pc = "generate"
    /\ todo # << >>
    /\ node[cur].real_g + Ops[Head(todo)].cost < cfg.bound
    /\ IsRegistered(reg, SuccState(reg[cur], Head(todo)))
    /\ LET i == IdOf(reg, SuccState(reg[cur], Head(todo)))
       IN /\ node[i].status = "CLOSED"
          /\ node[cur].g + AdjustedCost(Head(todo)) < node[i].g

\* without reopening such a step replaces the parent and the creating
\* operator of the node and nothing else of the search space, the open list
\* or the reopened and expanded counters
C12_OnlyParentReplaced ==
    [][(C12_CheaperPathToClosed /\ ~cfg.reopen) =>
          LET i == IdOf(reg, SuccState(reg[cur], Head(todo)))
          IN /\ node' = [node EXCEPT ![i].parent = cur, ![i].op = Head(todo)]
             /\ node'[i].status = "CLOSED"
             /\ node'[i].g = node[i].g
             /\ open' = open
             /\ stats'.reopened = stats.reopened
             /\ stats'.expanded = stats.expanded]_vars

\* without reopening no node is closed twice or reopened
C12_NeverExpandedAgain ==
    ~cfg.reopen =>
        /\ stats.reopened = 0
        /\ \A i \in 1..Len(node) :
              /\ Count("close", i) <= 1
              /\ Count("update_closed_node_parent", i) >= 1 =>
                    (node[i].status = "CLOSED" /\ Count("close", i) = 1)

\* C12: when reopen_closed is false and a strictly cheaper path to a Closed
\* node is found, only the node's parent state and generating operator are
\* replaced: its status stays Closed, its recorded g is unchanged, nothing is
\* inserted into the open list, the node is never expanded again and the
\* reopened counter is unchanged.
C12_ClosedParentUpdateFrame == C12_OnlyParentReplaced /\ []C12_NeverExpandedAgain

\* C12 happens: a search ended in which a Closed node got a new parent on a
\* cheaper path and kept its g
C12_Witness ==
    /\ pc = "finished"
    /\ ~cfg.reopen
    /\ \E i \in 1..Len(node) :
          /\ Count("update_closed_node_parent", i) >= 1
          /\ node[i].status = "CLOSED"
          /\ node[i].parent # 0
          /\ node[node[i].parent].g + AdjustedCost(node[i].op) < node[i].g

\* the states the h tables give an estimate for
TableStates == {<<v, w>> : v \in 0..(Len(Zero[1]) - 1), w \in 0..(Len(Zero) - 1)}

\* the configured heuristic is consistent for the adjusted operator costs:
\* no operator lowers the estimate by more than it costs (INFTY stands for
\* an infinite estimate)
Consistent ==
    \A s \in TableStates : \A o \in 1..NumOps :
        Applicable(s, o) =>
            \/ Heur(SuccState(s, o)) = INFTY
            \/ /\ Heur(s) # INFTY
               /\ Heur(s) <= AdjustedCost(o) + Heur(SuccState(s, o))

\* A* with reopening whose evaluator has returned the estimates of a
\* consistent heuristic so far
C13_AStarConsistent ==
    cfg.reopen /\ cfg.olist \in {"f", "fh"} /\ lazy_used = 0 /\ Consistent

\* no step of such a search turns a Closed node into an Open one
C13_NoClosedToOpen ==
    [][C13_AStarConsistent =>
          \A i \in 1..Len(node) :
              node[i].status = "CLOSED" => node'[i].status = "CLOSED"]_vars

\* the reopened counter of such a search is 0 and no node was closed twice
C13_ReopenedIsZero ==
    C13_AStarConsistent =>
        /\ stats.reopened = 0
        /\ \A i \in 1..Len(node) :
              Count("reopen_closed_node", i) = 0 /\ Count("close", i) <= 1

\* C13: with reopen_closed = true and the open list ordered by f = g + h for
\* a consistent heuristic h (A*), no node is ever reopened: the reopened
\* counter stays 0 and no Closed -> Open transition occurs.
C13_ConsistentNeverReopens == C13_NoClosedToOpen /\ []C13_ReopenedIsZero

\* C13 happens: such a search ended after it found a cheaper path to an Open
\* node and generated a Closed node again
C13_Witness ==
    /\ C13_AStarConsistent
    /\ pc = "finished"
    /\ \E i \in 1..Len(node) : Count("update_open_node_parent", i) >= 1
    /\ \E k \in 1..Len(log) :
          /\ log[k].ev = "notify_state_transition"
          /\ Count("close", log[k].id) = 1
          /\ \E m \in 1..(k - 1) : log[m].ev = "close" /\ log[m].id = log[k].id

\* no step changes the state a StateID denotes; a step registers at most one
\* state and only one that was not registered; a get_successor_state call
\* returns the id of the successor's assignment, the known one if there is one
C14_IdsAreStable ==
    [][/\ \A i \in 1..Len(reg) : i <= Len(reg') /\ reg'[i] = reg[i]
       /\ Len(reg') <= Len(reg) + 1
       /\ Len(reg') = Len(reg) + 1 =>
             \A i \in 1..Len(reg) : reg[i] # reg'[Len(reg')]
       /\ (pc = "generate" /\ todo # << >>
             /\ node[cur].real_g + Ops[Head(todo)].cost < cfg.bound) =>
             LET s == SuccState(reg[cur], Head(todo))
                 call == log'[Len(log) + 1]
             IN /\ call.ev = "notify_state_transition"
                /\ reg'[call.id] = s
                /\ \A i \in 1..Len(reg) : reg[i] = s => (call.id = i /\ reg' = reg)]_vars

\* two StateIDs denote two different assignments, the first one the initial
\* state, and every registered state has a node
C14_IdsAreDistinct ==
    /\ \A i, j \in 1..Len(reg) : reg[i] = reg[j] => i = j
    /\ reg # << >> => reg[1] = Task.init
    /\ Len(node) = Len(reg)

\* C14: state registration is canonical across any sequence of
\* get_initial_state and get_successor_state calls: the same assignment gets
\* the same StateID, different assignments get different StateIDs, and a
\* StateID once assigned denotes the same assignment for the rest of the run
\* (registering a known state creates no new entry).
C14_RegistrationIsCanonical == C14_IdsAreStable /\ []C14_IdsAreDistinct

\* C14 happens: a state was returned by get_successor_state for two different
\* parents and the initial state was returned again as a successor
C14_Witness ==
    /\ Len(reg) >= 3
    /\ \E k, m \in 1..Len(log) :
          /\ log[k].ev = "notify_state_transition"
          /\ log[m].ev = "notify_state_transition"
          /\ log[k].id = log[m].id
          /\ log[k].x # log[m].x
    /\ \E k \in 1..Len(log) : log[k].ev = "notify_state_transition" /\ log[k].id = 1

\* the open list without its i-th entry
C15_Without(entries, i) ==
    [j \in 1..(Len(entries) - 1) |-> IF j < i THEN entries[j] ELSE entries[j + 1]]

\* C15: remove_min returns an entry whose sort key is lexicographically
\* minimal among all entries of the open list, and among the entries with
\* that key the one inserted earliest (FIFO); that entry is removed and all
\* other entries are left unchanged (a lazily re-evaluated node may be
\* inserted again behind them in the same iteration).
C15_RemoveMinTakesEarliestMinimum ==
    [][(pc = "next_node" /\ open # << >>) =>
          LET call == log'[Len(log) + 1]
          IN /\ call.ev = "remove_min"
             /\ \E i \in 1..Len(open) :
                   /\ open[i].id = call.id
                   /\ open[i].key = call.y
                   /\ \A j \in 1..Len(open) : ~KeyLess(open[j].key, open[i].key)
                   /\ \A j \in 1..(i - 1) : open[j].key # open[i].key
                   /\ \/ open' = C15_Without(open, i)
                      \/ /\ Len(open') = Len(open)
                         /\ SubSeq(open', 1, Len(open) - 1) = C15_Without(open, i)
                         /\ open'[Len(open)].id = call.id
                         /\ log'[Len(log')].ev = "insert"]_vars

\* the log records the insertion of entry a before that of entry b and, after
\* both, the removal of first before that of second
RemovedInOrder(a, b, first, second) ==
    /\ a < b
    /\ log[a].ev = "insert" /\ log[b].ev = "insert"
    /\ first \in {a, b} /\ second \in {a, b} /\ first # second
    /\ \E p, q \in (b + 1)..Len(log) :
          /\ p < q
          /\ log[p].ev = "remove_min" /\ log[p].id = log[first].id /\ log[p].y = log[first].y
          /\ log[q].ev = "remove_min" /\ log[q].id = log[second].id /\ log[q].y = log[second].y

\* C15 happens: of two entries with equal keys the earlier one was returned
\* first, and an entry was returned before an earlier one whose key has the
\* same first component and a larger second component
C15_Witness ==
    /\ cfg.olist = "fh"
    /\ \E a, b \in 1..Len(log) :
          /\ RemovedInOrder(a, b, a, b)
          /\ log[a].id # log[b].id
          /\ log[a].y = log[b].y
    /\ \E a, b \in 1..Len(log) :
          /\ RemovedInOrder(a, b, b, a)
          /\ log[a].y[1] = log[b].y[1]
          /\ log[b].y[2] < log[a].y[2]

\* without a lazy evaluator no estimate is obtained twice, and the step the
\* search takes is the only one it can take
C16_OneSuccessor ==
    [][~cfg.lazy => \A c \in {vars'} : ~ENABLED (Next /\ vars' # c)]_vars

\* with a lazy evaluator the step is the only one that obtains the same
\* estimates from the evaluator
C16_OneSuccessorPerEstimate ==
    [][\A c \in {vars'} : \A h \in {hc'} : ~ENABLED (Next /\ hc' = h /\ vars' # c)]_vars

\* a task and a configuration have one state after construction
C16_OneStart ==
    pc = "initialize" =>
        /\ <<reg, node, open, hc, todo, plan, log>> = << << >>, << >>, << >>, << >>, << >>, << >>, << >> >>
        /\ status = "IN_PROGRESS" /\ cur = 0 /\ lazy_used = 0
        /\ \A f \in DOMAIN stats : stats[f] = 0

C17_LazyPop ==
    /\ pc = "next_node"
    /\ open # << >>
    /\ cfg.lazy
    /\ node[open[MinIndex(open)].id].status = "OPEN"
    /\ hc[open[MinIndex(open)].id] # NO_VALUE

\* C17: with a lazy evaluator, a popped Open node with a cached estimate is
\* evaluated again; it is closed and expanded in that pop if and only if the
\* open list reports no dead end and the fresh estimate equals the cached
\* one.  If the open list reports a dead end the node is marked DeadEnd, the
\* dead-end counter is incremented and the node is not inserted again;
\* otherwise, if the estimate changed, the node stays Open and is inserted
\* again with the new key.  In these two cases it is not closed or expanded.
C17_LazyReevaluation ==
    [][C17_LazyPop =>
          LET at == MinIndex(open)
              id == open[at].id
              eval == log'[Len(log) + 2]
              new_h == eval.y
              dead == new_h = INFTY
              changed == new_h # hc[id]
              expanded == /\ node'[id].status = "CLOSED"
                          /\ stats'.expanded = stats.expanded + 1
                          /\ cur' = id
          IN /\ eval.ev = "evaluate" /\ eval.id = id
             /\ expanded <=> (~dead /\ ~changed)
             /\ dead =>
                   /\ node'[id].status = "DEAD_END"
                   /\ stats'.dead_ends = stats.dead_ends + 1
                   /\ open' = C15_Without(open, at)
             /\ (~dead /\ changed) =>
                   /\ node' = node
                   /\ open' = Append(C15_Without(open, at),
                                     [key |-> << node[id].g + new_h >>, id |-> id])
                   /\ stats' = stats
             /\ (dead \/ changed) =>
                   /\ stats'.expanded = stats.expanded
                   /\ pc' = "next_node" /\ cur' = cur
                   /\ \A k \in (Len(log) + 1)..Len(log') : log'[k].ev # "close"]_vars

\* C17 happens: in one search a re-evaluated node was inserted again with a
\* changed estimate and later closed when its estimate came back unchanged,
\* and another node was marked DeadEnd when it was re-evaluated
C17_Witness ==
    /\ cfg.lazy
    /\ \E k \in 1..(Len(log) - 2) :
          /\ log[k].ev = "remove_min"
          /\ log[k + 1].ev = "evaluate" /\ log[k + 2].ev = "insert"
          /\ \E m \in (k + 3)..(Len(log) - 2) :
                /\ log[m].ev = "remove_min" /\ log[m].id = log[k].id
                /\ log[m + 1].ev = "evaluate" /\ log[m + 1].y = log[k + 1].y
                /\ log[m + 2].ev = "close"
    /\ \E k \in 1..(Len(log) - 2) :
          /\ log[k].ev = "remove_min"
          /\ log[k + 1].ev = "evaluate" /\ log[k + 2].ev = "mark_as_dead_end"

\* an iteration of the loop of generate_successors notifies first, of the
\* expanded state, the operator and its successor, and evaluates or inserts
\* nothing but that successor afterwards; an iteration skipped by the bound
\* notifies, evaluates and inserts nothing
C18_NotifiedOnGeneration ==
    [][(pc = "generate" /\ todo # << >>) =>
          IF node[cur].real_g + Ops[Head(todo)].cost >= cfg.bound
          THEN log' = log
          ELSE LET call == log'[Len(log) + 1]
               IN /\ Len(log') > Len(log)
                  /\ call.ev = "notify_state_transition"
                  /\ call.x = cur /\ call.y = Head(todo)
                  /\ reg'[call.id] = SuccState(reg[cur], Head(todo))
                  /\ \A k \in (Len(log) + 2)..Len(log') :
                        /\ log'[k].ev # "notify_state_transition"
                        /\ log'[k].ev \in {"evaluate", "insert"} => log'[k].id = call.id]_vars

\* the log starts with the notification of the initial state, there is one
\* notification for every generated successor, none outside
\* generate_successors, and none for an operator the pruning method removes
C18_NotifiedInOrder ==
    /\ log # << >> => (log[1].ev = "notify_initial_state" /\ reg[log[1].id] = Task.init)
    /\ \A k \in 2..Len(log) : log[k].ev # "notify_initial_state"
    /\ Cardinality({k \in 1..Len(log) : log[k].ev = "notify_state_transition"})
          = stats.generated
    /\ \A k \in 1..Len(log) :
          /\ log[k].ev = "notify_state_transition" =>
                /\ log[k].y \notin cfg.pruned
                /\ Holds(reg[log[k].x], Ops[log[k].y].pre)
                /\ reg[log[k].id] = SuccState(reg[log[k].x], log[k].y)
          /\ (log[k].ev \in {"evaluate", "insert"} /\ log[k].id # 1) =>
                \E m \in 1..(k - 1) :
                    log[m].ev = "notify_state_transition" /\ log[m].id = log[k].id

\* no step outside generate_successors notifies of a transition
C18_NoOtherNotification ==
    [][pc # "generate" =>
          \A k \in (Len(log) + 1)..Len(log') : log'[k].ev # "notify_state_transition"]_vars

\* C18: every path-dependent evaluator receives notify_initial_state for the
\* initial state before any evaluator is evaluated on any state, and
\* notify_state_transition(parent, op, successor) for every successor
\* computed during expansion, also when the successor's node is DeadEnd, Open
\* or Closed, before that successor is evaluated or inserted; operators
\* skipped by the bound check or removed by pruning cause no notification.
C18_EvaluatorsNotified ==
    C18_NotifiedOnGeneration /\ C18_NoOtherNotification /\ []C18_NotifiedInOrder

\* the log records a notification for a successor after event ev for it
C18_NotifiedAfter(ev) ==
    \E k, m \in 1..Len(log) :
        /\ k < m
        /\ log[k].ev = ev
        /\ log[m].ev = "notify_state_transition" /\ log[m].id = log[k].id

\* C18 happens: a bounded search notified of successors that were DeadEnd,
\* Closed and Open at the time and skipped an operator because of the bound
C18_Witness ==
    /\ C18_NotifiedAfter("mark_as_dead_end")
    /\ C18_NotifiedAfter("close")
    /\ \E i \in 1..Len(node) : Count("update_open_node_parent", i) >= 1
    /\ cfg.bound # INFTY
    /\ \E i \in 1..Len(node) : \E o \in 1..NumOps :
          /\ Count("close", i) >= 1
          /\ Holds(reg[i], Ops[o].pre)
          /\ node[i].real_g + Ops[o].cost >= cfg.bound

\* C19: when cost_type = Normal, every Open or Closed node has g = real_g in
\* every reachable state of the search, across opening, re-parenting and
\* reopening.
C19_NormalCostGEqualsRealG ==
    cfg.cost_type = "NORMAL" =>
        \A i \in 1..Len(node) :
            node[i].status \in {"OPEN", "CLOSED"} => node[i].g = node[i].real_g

\* C19 happens: with cost_type Normal a search ended in which an Open node
\* got a cheaper parent and a Closed node was reopened, and a node was
\* opened through an operator of cost other than 1
C19_Witness ==
    /\ cfg.cost_type = "NORMAL"
    /\ pc = "finished"
    /\ \E i \in 1..Len(node) : Count("update_open_node_parent", i) >= 1
    /\ \E i \in 1..Len(node) :
          /\ Count("reopen_closed_node", i) >= 1
          /\ node[i].status = "CLOSED"
          /\ node[i].real_g >= 2
    /\ \E k \in 1..Len(log) : log[k].ev = "open_new_node" /\ Ops[log[k].y].cost # 1

\* the value of variable v after operator o is applied in state s: that of
\* an effect on v whose condition holds in s, the value in s without one
C20_ValueAfter(s, o, v) ==
    LET firing == {e \in Ops[o].eff : e.var = v /\ \A f \in e.cond : s[f[1]] = f[2]}
    IN IF firing = {} THEN s[v] ELSE (CHOOSE e \in firing : TRUE).val

\* every successor the search registers is the parent state changed by
\* exactly the effects whose conditions hold in the parent state
C20_ConditionsTestedOnParent ==
    [][(pc = "generate" /\ todo # << >>
          /\ node[cur].real_g + Ops[Head(todo)].cost < cfg.bound) =>
          LET call == log'[Len(log) + 1]
          IN reg'[call.id] = [v \in DOMAIN reg[cur] |-> C20_ValueAfter(reg[cur], Head(todo), v)]]_vars

\* on the tasks whose only operator has the effect Y := 1 if X = 0, a search
\* that can apply the operator ends SOLVED with plan [op0] of cost 1 in a
\* state with Y = 1
C20_ConditionalEffectTaskSolved ==
    ( /\ cfg.task \in {5, 13}
      /\ pc = "finished"
      /\ cfg.bound > 1
      /\ cfg.pruned = {}
      /\ \A i \in 1..Len(node) : node[i].status # "DEAD_END" )
    => /\ status = "SOLVED"
       /\ plan = <<1>>
       /\ PlanCost(plan) = 1
       /\ reg[cur][2] = 1

\* C20: get_successor_state tests every effect condition against the parent
\* state (not against a partially updated successor) and applies exactly the
\* effects whose conditions hold there; for an operator with precondition
\* X=0 and effect 'Y:=1 if X=0' applied in X=0,Y=0 the successor has Y=1, so
\* eager search on that task with goal Y=1 returns plan [op0] with cost 1.
C20_SuccessorState == C20_ConditionsTestedOnParent /\ []C20_ConditionalEffectTaskSolved

\* C20 happens: the search is solved by an operator that changes X and sets
\* Y under the condition X=0, in a state with the new X and Y=1
C20_Witness ==
    /\ status = "SOLVED"
    /\ plan = <<1>>
    /\ reg[1] = <<0, 0>>
    /\ reg[cur] = <<1, 1>>
    /\ \E e \in Ops[1].eff : e.var = 2 /\ e.cond = {<<1, 0>>}


---------------------------------------------------------------------------
(* The max heuristic (src/search/heuristics/max_heuristic.cc)              *)

\* Heuristic::DEAD_END, the value compute_heuristic returns for a dead end
DEAD_END == -1

\* domain sizes of the two variables of every task
DomainSizes == <<Len(Zero[1]), Len(Zero)>>

\* one Proposition per fact
Propositions == {<<var, val>> : var \in {1}, val \in 0..(DomainSizes[1] - 1)}
                    \cup {<<var, val>> : var \in {2}, val \in 0..(DomainSizes[2] - 1)}

\* the facts of a state
FactsOf(s) == {<<var, s[var]>> : var \in DOMAIN s}

\* the effects of an operator in the order of the task: by variable, then value
RECURSIVE EffectsInOrder(_)
EffectsInOrder(E) ==
    IF E = {} THEN << >>
    ELSE LET first == CHOOSE e \in E : \A f \in E :
                          e.var < f.var \/ (e.var = f.var /\ e.val <= f.val)
         IN  <<first>> \o EffectsInOrder(E \ {first})

\* the unary operators of one operator: one per effect, its preconditions the
\* operator's preconditions and the effect's conditions, its base cost the
\* operator's cost
UnaryOperatorsOfOp(op) ==
    LET effs == EffectsInOrder(op.eff)
    IN  [i \in 1..Len(effs) |->
            [pre |-> op.pre \cup effs[i].cond,
             effect |-> <<effs[i].var, effs[i].val>>,
             base_cost |-> op.cost]]

RECURSIVE UnaryOperatorsFrom(_, _)
UnaryOperatorsFrom(ops, o) ==
    IF o > Len(ops) THEN << >>
    ELSE UnaryOperatorsOfOp(ops[o]) \o UnaryOperatorsFrom(ops, o + 1)

\* RelaxationHeuristic::unary_operators of every task
UnaryOperatorsOf == [t \in 1..Len(Tasks) |-> UnaryOperatorsFrom(Tasks[t].ops, 1)]
unary_operators == UnaryOperatorsOf[cfg.task]

\* RelaxationHeuristic::goal_propositions
goal_propositions == Task.goal

\* mutant of NumPreconditions: an operator without preconditions counts as
\* one with a precondition
NumPreconditionsAtLeastOne(u) ==
    IF unary_operators[u].pre = {} THEN 1 ELSE Cardinality(unary_operators[u].pre)

\* UnaryOperator::num_preconditions
NumPreconditions(u) == Cardinality(unary_operators[u].pre)

\* the data compute_heuristic works on
Exploration == [queue |-> queue, prop_cost |-> prop_cost, op_cost |-> op_cost,
                unsat |-> unsatisfied_preconditions]

\* RelaxationHeuristic::enqueue_if_necessary: a proposition is given a cost
\* and pushed if it was unreached or reached at a higher cost
EnqueueIfNecessary(x, p, c) ==
    IF x.prop_cost[p] = -1 \/ x.prop_cost[p] > c
    THEN [x EXCEPT !.prop_cost[p] = c, !.queue = @ \cup {[cost |-> c, prop |-> p]}]
    ELSE x

\* setup_exploration_queue, the loop over the unary operators from u on
RECURSIVE SetupOperators(_, _)
SetupOperators(x, u) ==
    IF u > Len(unary_operators) THEN x
    ELSE LET y == [x EXCEPT !.unsat[u] = NumPreconditions(u),
                            !.op_cost[u] = unary_operators[u].base_cost]
         IN  SetupOperators(IF y.unsat[u] = 0
                            THEN EnqueueIfNecessary(y, unary_operators[u].effect,
                                                    unary_operators[u].base_cost)
                            ELSE y,
                            u + 1)

\* setup_exploration_queue: the queue is cleared, every proposition unreached
SetupExplorationQueue ==
    SetupOperators([queue |-> {},
                    prop_cost |-> [p \in Propositions |-> -1],
                    op_cost |-> [u \in 1..Len(unary_operators) |-> 0],
                    unsat |-> [u \in 1..Len(unary_operators) |-> 0]], 1)

\* setup_exploration_queue_state, the loop over the variables from var on
RECURSIVE SetupExplorationQueueState(_, _, _)
SetupExplorationQueueState(x, s, var) ==
    IF var > Len(s) THEN x
    ELSE SetupExplorationQueueState(EnqueueIfNecessary(x, <<var, s[var]>>, 0), s, var + 1)

\* the states compute_heuristic is called for
HeuristicStates == {<<v, w>> : v \in 0..(DomainSizes[1] - 1), w \in 0..(DomainSizes[2] - 1)}

\* compute_heuristic up to the call of relaxed_exploration, and the
\* initialisation of unsolved_goals there
HCompute ==
    /\ hpc \in {"call", "returned"}
    /\ \E s \in HeuristicStates :
        LET x == SetupExplorationQueueState(SetupExplorationQueue, s, 1)
        IN  /\ hstate' = s
            /\ queue' = x.queue
            /\ prop_cost' = x.prop_cost
            /\ op_cost' = x.op_cost
            /\ unsatisfied_preconditions' = x.unsat
    /\ unsolved_goals' = Cardinality(goal_propositions)
    /\ total_cost' = NO_VALUE
    /\ hpc' = "explore"
    /\ UNCHANGED <<cfg, searchVars, segVars, ocVars>>

\* AdaptiveQueue::pop: an entry of least cost; which one of several is left open
QueueTop == {e \in queue : \A f \in queue : e.cost <= f.cost}

\* mutant of PoppedIsStale: the test of line 69 is missing
PoppedIsStaleNever(e) == FALSE

\* the test of line 69
PoppedIsStale(e) == prop_cost[e.prop] < e.cost

\* mutant of LastGoalPopped: the exploration is left at the first goal popped
FirstGoalPopped(e) == e.prop \in goal_propositions

\* the test of line 71
LastGoalPopped(e) == e.prop \in goal_propositions /\ unsolved_goals - 1 = 0

\* relaxed_exploration: a stale entry is skipped
HPopStale ==
    /\ hpc = "explore"
    /\ \E e \in QueueTop :
        /\ PoppedIsStale(e)
        /\ queue' = queue \ {e}
    /\ UNCHANGED <<hpc, hstate, prop_cost, op_cost, unsatisfied_preconditions,
                   unsolved_goals, total_cost>>
    /\ UNCHANGED <<cfg, searchVars, segVars, ocVars>>

\* relaxed_exploration: the last unsolved goal is popped, return
HPopLastGoal ==
    /\ hpc = "explore"
    /\ \E e \in QueueTop :
        /\ ~PoppedIsStale(e)
        /\ LastGoalPopped(e)
        /\ queue' = queue \ {e}
    /\ unsolved_goals' = unsolved_goals - 1
    /\ hpc' = "total"
    /\ UNCHANGED <<hstate, prop_cost, op_cost, unsatisfied_preconditions, total_cost>>
    /\ UNCHANGED <<cfg, searchVars, segVars, ocVars>>

\* mutant of RelaxedCost: the costs of the preconditions are added up
RelaxedCostSum(x, u, c) == x.op_cost[u] + c

\* lines 76-77: the cost of a unary operator is its base cost plus the
\* largest cost of a precondition popped so far
RelaxedCost(x, u, c) ==
    IF x.op_cost[u] >= unary_operators[u].base_cost + c
    THEN x.op_cost[u] ELSE unary_operators[u].base_cost + c

\* lines 73-82: the loop over the unary operators from u on of which the
\* popped proposition p of cost c is a precondition
RECURSIVE Relax(_, _, _, _)
Relax(x, p, c, u) ==
    IF u > Len(unary_operators) THEN x
    ELSE IF p \notin unary_operators[u].pre THEN Relax(x, p, c, u + 1)
    ELSE LET y == [x EXCEPT !.op_cost[u] = RelaxedCost(x, u, c),
                            !.unsat[u] = @ - 1]
         IN  Relax(IF y.unsat[u] = 0
                   THEN EnqueueIfNecessary(y, unary_operators[u].effect, y.op_cost[u])
                   ELSE y,
                   p, c, u + 1)

\* relaxed_exploration: a proposition is popped and the unary operators it is
\* a precondition of are relaxed
HPopRelax ==
    /\ hpc = "explore"
    /\ \E e \in QueueTop :
        /\ ~PoppedIsStale(e)
        /\ ~LastGoalPopped(e)
        /\ LET x == Relax([Exploration EXCEPT !.queue = @ \ {e}],
                          e.prop, prop_cost[e.prop], 1)
           IN  /\ queue' = x.queue
               /\ prop_cost' = x.prop_cost
               /\ op_cost' = x.op_cost
               /\ unsatisfied_preconditions' = x.unsat
        /\ unsolved_goals' = IF e.prop \in goal_propositions
                             THEN unsolved_goals - 1 ELSE unsolved_goals
    /\ UNCHANGED <<hpc, hstate, total_cost>>
    /\ UNCHANGED <<cfg, searchVars, segVars, ocVars>>

\* relaxed_exploration: the queue is empty
HQueueEmpty ==
    /\ hpc = "explore"
    /\ queue = {}
    /\ hpc' = "total"
    /\ UNCHANGED <<hstate, queue, prop_cost, op_cost, unsatisfied_preconditions,
                   unsolved_goals, total_cost>>
    /\ UNCHANGED <<cfg, searchVars, segVars, ocVars>>

\* mutant of GoalUnreached: no goal proposition counts as unreached
GoalUnreachedNever == FALSE

\* line 97 for some goal proposition
GoalUnreached == \E g \in goal_propositions : prop_cost[g] = -1

\* the largest of the numbers in S and 0
MaxOf(S) == IF S = {} THEN 0 ELSE CHOOSE x \in S \cup {0} : \A y \in S \cup {0} : y <= x

\* compute_heuristic: a goal proposition was not reached
HReturnDeadEnd ==
    /\ hpc = "total"
    /\ GoalUnreached
    /\ total_cost' = DEAD_END
    /\ hpc' = "returned"
    /\ UNCHANGED <<hstate, queue, prop_cost, op_cost, unsatisfied_preconditions,
                   unsolved_goals>>
    /\ UNCHANGED <<cfg, searchVars, segVars, ocVars>>

\* compute_heuristic: the largest cost of a goal proposition is returned
HReturnTotal ==
    /\ hpc = "total"
    /\ ~GoalUnreached
    /\ total_cost' = MaxOf({prop_cost[g] : g \in goal_propositions})
    /\ hpc' = "returned"
    /\ UNCHANGED <<hstate, queue, prop_cost, op_cost, unsatisfied_preconditions,
                   unsolved_goals>>
    /\ UNCHANGED <<cfg, searchVars, segVars, ocVars>>

\* no search is going on
SearchIdle ==
    /\ pc = "none"
    /\ status = "none"
    /\ reg = << >>
    /\ node = << >>
    /\ open = << >>
    /\ hc = << >>
    /\ stats = << >>
    /\ cur = 0
    /\ todo = << >>
    /\ plan = << >>
    /\ lazy_used = 0
    /\ log = << >>

\* the heuristic constructed for a task
MaxInit ==
    /\ CountingIdle
    /\ cfg \in [task : 1..Len(Tasks)]
    /\ SearchIdle
    /\ StorageIdle
    /\ hpc = "call"
    /\ hstate = << >>
    /\ queue = {}
    /\ prop_cost = [p \in Propositions |-> -1]
    /\ op_cost = [u \in 1..Len(unary_operators) |-> 0]
    /\ unsatisfied_preconditions = [u \in 1..Len(unary_operators) |-> 0]
    /\ unsolved_goals = 0
    /\ total_cost = NO_VALUE

MaxNext ==
    \/ HCompute
    \/ HPopStale
    \/ HPopLastGoal
    \/ HPopRelax
    \/ HQueueEmpty
    \/ HReturnDeadEnd
    \/ HReturnTotal

MaxSpec == MaxInit /\ [][MaxNext]_vars


---------------------------------------------------------------------------
(* Reference notions for the max heuristic *)

\* c + m where m may be INFTY
PlusInf(c, m) == IF m = INFTY THEN INFTY ELSE c + m

\* the least fixpoint of  cost(p) = 0 for the facts of s, otherwise the
\* minimum over the unary operators achieving p of base_cost + the largest
\* cost of a precondition  (INFTY: not reachable).  A derivation of least
\* cost uses every proposition at most once, so fuel = number of
\* propositions reaches the fixpoint.
RECURSIVE FixpointCost(_, _, _, _)
FixpointCost(t, s, p, fuel) ==
    IF s[p[1]] = p[2] THEN 0
    ELSE IF fuel = 0 THEN INFTY
    ELSE LET U == UnaryOperatorsOf[t]
         IN  MinOf({INFTY} \cup
                   { PlusInf(U[u].base_cost,
                             MaxOf({FixpointCost(t, s, q, fuel - 1) : q \in U[u].pre}))
                     : u \in {i \in 1..Len(U) : U[i].effect = p} })

\* the fixpoint cost of every proposition, for every task and state
HMaxCost ==
    [t \in 1..Len(Tasks) |-> [s \in HeuristicStates |-> [p \in Propositions |->
        FixpointCost(t, s, p, Cardinality(Propositions))]]]

\* h^max: the largest fixpoint cost of a goal proposition, DEAD_END if one
\* of them is not reachable
HMaxRef ==
    [t \in 1..Len(Tasks) |-> [s \in HeuristicStates |->
        LET costs == {HMaxCost[t][s][g] : g \in Tasks[t].goal}
        IN  IF INFTY \in costs THEN DEAD_END ELSE MaxOf(costs)]]

---------------------------------------------------------------------------
(* C21 *)

\* C21: compute_heuristic returns the h^max value of the least fixpoint
\* (the largest fixpoint cost of a goal proposition, 0 when the state
\* satisfies every goal) and DEAD_END exactly when a goal proposition is
\* unreachable in the fixpoint; when the exploration is over, after the
\* early return as well, every goal proposition has its fixpoint cost.
C21_Returned ==
    hpc = "returned" =>
        /\ total_cost = HMaxRef[cfg.task][hstate]
        /\ total_cost = DEAD_END <=>
               \E g \in goal_propositions : HMaxCost[cfg.task][hstate][g] = INFTY
        /\ IsGoal(hstate) => total_cost = 0

C21_GoalCostsFinal ==
    hpc \in {"total", "returned"} =>
        \A g \in goal_propositions :
            prop_cost[g] = IF HMaxCost[cfg.task][hstate][g] = INFTY THEN -1
                           ELSE HMaxCost[cfg.task][hstate][g]

C21_ComputesHMax == C21_Returned /\ C21_GoalCostsFinal

\* an estimate was returned after the early return with entries left in the
\* queue, for a goal whose cost is the maximum over two preconditions of
\* different cost
C21_Witness ==
    /\ hpc = "returned"
    /\ queue # {}
    /\ total_cost > 0
    /\ \E u \in 1..Len(unary_operators) :
        /\ unary_operators[u].effect \in goal_propositions
        /\ \E p, q \in unary_operators[u].pre :
               0 < prop_cost[p] /\ prop_cost[p] < prop_cost[q]
        /\ total_cost = op_cost[u]


---------------------------------------------------------------------------
(* Reference notions: plans from any state *)

\* operator o of task t is applicable in s
ApplicableIn(t, s, o) == \A f \in Tasks[t].ops[o].pre : s[f[1]] = f[2]

\* the state operator o of task t leads to from s
SuccIn(t, s, o) == ExecIn(t, s, <<o>>)

\* cost of a cheapest operator sequence of at most fuel operators that
\* leads from s to a goal state of task t, INFTY if there is none
RECURSIVE GoalDistanceWithin(_, _, _)
GoalDistanceWithin(t, s, fuel) ==
    IF \A f \in Tasks[t].goal : s[f[1]] = f[2] THEN 0
    ELSE IF fuel = 0 THEN INFTY
    ELSE MinOf({INFTY} \cup
               { PlusInf(Tasks[t].ops[o].cost, GoalDistanceWithin(t, SuccIn(t, s, o), fuel - 1))
                 : o \in {i \in 1..Len(Tasks[t].ops) : ApplicableIn(t, s, i)} })

\* h*: cost of a cheapest plan from s; a cheapest plan visits no state
\* twice, so it has fewer operators than there are states
GoalDistance ==
    [t \in 1..Len(Tasks) |-> [s \in HeuristicStates |->
        GoalDistanceWithin(t, s, Cardinality(HeuristicStates) - 1)]]

---------------------------------------------------------------------------
(* C22 *)

\* C22: the max heuristic is safe: it returns DEAD_END only for a state
\* from which no operator sequence reaches a goal state.
C22_DeadEndOnlyIfUnsolvable ==
    (hpc = "returned" /\ total_cost = DEAD_END) =>
        GoalDistance[cfg.task][hstate] = INFTY

\* C22 happens: DEAD_END was returned for a state in which an operator is
\* applicable, after propositions other than the state's facts were reached
C22_Witness ==
    /\ hpc = "returned"
    /\ total_cost = DEAD_END
    /\ \E o \in 1..NumOps : Applicable(hstate, o) /\ SuccState(hstate, o) # hstate
    /\ \E p \in Propositions : p \notin FactsOf(hstate) /\ prop_cost[p] > 0


---------------------------------------------------------------------------
(* C23 *)

\* C23: the max heuristic is admissible on tasks without axioms: for every
\* state from which the goal is reachable, the value returned is an
\* estimate (not DEAD_END) that is at most the cost of a cheapest plan from
\* that state.
C23_Admissible ==
    (hpc = "returned" /\ GoalDistance[cfg.task][hstate] # INFTY) =>
        /\ total_cost # DEAD_END
        /\ total_cost <= GoalDistance[cfg.task][hstate]

\* C23 happens: a positive estimate was returned that is below the cost of a
\* cheapest plan, in a task with an operator of several preconditions
C23_Witness ==
    /\ hpc = "returned"
    /\ GoalDistance[cfg.task][hstate] # INFTY
    /\ 0 < total_cost
    /\ total_cost < GoalDistance[cfg.task][hstate]
    /\ \E u \in 1..Len(unary_operators) : NumPreconditions(u) > 1


---------------------------------------------------------------------------
(* C24 *)

\* the values an admissible lower bound can have at state s of task t:
\* every number that is at most the cost of a cheapest plan from s
AdmissibleValues(t, s) ==
    {b \in 0..(Cardinality(HeuristicStates) * MaxOf({0} \cup {Tasks[t].ops[o].cost :
                                                    o \in 1..Len(Tasks[t].ops)})) :
        b <= GoalDistance[t][s]}

\* the cost of the cheapest operator of task t, INFTY without operators
MinOperatorCost(t) ==
    MinOf({INFTY} \cup {Tasks[t].ops[o].cost : o \in 1..Len(Tasks[t].ops)})

\* C24 as stated: for every state, the value returned by the max heuristic
\* is at least every admissible lower bound on the cost of reaching the goal
\* from that state.
C24_AtLeastEveryAdmissibleBound ==
    hpc = "returned" =>
        \A b \in AdmissibleValues(cfg.task, hstate) :
            total_cost = DEAD_END \/ total_cost >= b

\* C24 amended: for every state, the max heuristic returns 0 if the state
\* satisfies every goal, and otherwise DEAD_END or a value that is at least
\* the cost of the cheapest operator (the lower bound of the blind
\* heuristic).
C24_AtLeastBlindBound ==
    hpc = "returned" =>
        IF IsGoal(hstate) THEN total_cost = 0
        ELSE total_cost = DEAD_END \/ total_cost >= MinOperatorCost(cfg.task)

\* C24 happens: for a state that is no goal state an estimate was returned
\* that is above the cost of the cheapest operator and below the cost of a
\* cheapest plan, which is an admissible lower bound
C24_Witness ==
    /\ hpc = "returned"
    /\ ~IsGoal(hstate)
    /\ total_cost > MinOperatorCost(cfg.task)
    /\ total_cost < GoalDistance[cfg.task][hstate]
    /\ GoalDistance[cfg.task][hstate] \in AdmissibleValues(cfg.task, hstate)


---------------------------------------------------------------------------
(* C25 *)

\* the estimate the max heuristic gives the search for state s: DEAD_END is
\* reported as an infinite estimate
HMaxEstimate(t, s) == IF HMaxRef[t][s] = DEAD_END THEN INFTY ELSE HMaxRef[t][s]

\* the heuristic of the configuration gives every registered state its
\* h^max value
EstimatesAreHMax == \A i \in 1..Len(reg) : Heur(reg[i]) = HMaxEstimate(cfg.task, reg[i])

\* how many nodes were returned for expansion (closed) so far
NodesExpanded == Cardinality({k \in 1..Len(log) : log[k].ev = "close"})

\* scenario S1: greedy search on the max heuristic without reopening, no
\* bound, no pruning
C25_S1 ==
    /\ cfg.task = 1
    /\ cfg.olist = "h"
    /\ cfg.heur = 1
    /\ ~cfg.reopen
    /\ cfg.bound = INFTY
    /\ cfg.pruned = {}

\* C25: on S1 (V=0 -> V=1 -> V=2, cost 1 each) eager search with one open
\* list keyed by the max heuristic and reopen_closed = false ends with the
\* plan [op0, op1] of cost 2 after exactly 3 expansions; the expansion
\* counter counts every node returned for expansion, the goal node included.
C25_ThreeExpansions ==
    /\ stats.expanded = NodesExpanded
    /\ C25_S1 =>
        /\ EstimatesAreHMax
        /\ stats.expanded <= 3
        /\ pc = "finished" =>
            /\ status = "SOLVED"
            /\ plan = <<1, 2>>
            /\ PlanCost(plan) = 2
            /\ stats.expanded = 3
            /\ IsGoal(reg[cur]) /\ node[cur].status = "CLOSED"

\* C25 happens: the search of S1 stopped on the goal node as the third node
\* expanded
C25_Witness ==
    /\ C25_S1
    /\ pc = "finished"
    /\ status = "SOLVED"
    /\ stats.expanded = 3
    /\ log[Len(log)].ev = "close"
    /\ log[Len(log)].id = cur
    /\ reg[cur] = <<2, 0>>


---------------------------------------------------------------------------
(* C26 *)

\* scenario S4: eager search with the max heuristic in the open list (alone,
\* or with g as f = g + h, with or without h as tie-breaker), no bound, no
\* pruning, the estimates computed once per state
C26_S4 ==
    /\ cfg.task = 4
    /\ cfg.olist \in {"h", "f", "fh"}
    /\ cfg.heur = 1
    /\ ~cfg.lazy
    /\ cfg.bound = INFTY
    /\ cfg.pruned = {}

\* C26 as stated: on S4 (A: 0 -> 1 and B: 0 -> 1, cost 1 each, goal A=1 and
\* B=1) eager search with the max heuristic returns a plan of length 2 and
\* cost 2 with generated = 4 and at most 3 expansions.
C26_FourGeneratedThreeExpanded ==
    (C26_S4 /\ pc = "finished") =>
        /\ status = "SOLVED"
        /\ Len(plan) = 2
        /\ PlanCost(plan) = 2
        /\ stats.generated = 4
        /\ stats.expanded <= 3

\* C26 amended: on S4 eager search with the max heuristic returns a plan of
\* length 2 and cost 2, and when it stops the generated counter equals the
\* expansion counter: both are 3 with the open list keyed by h alone, both
\* are 4 with the open list keyed by f = g + h alone (3 or 4 with h as
\* tie-breaker of f).  The goal node is expanded (counted) after every node
\* whose successors were generated, so generated = 4 never goes with fewer
\* than 4 expansions.
C26_GeneratedAndExpanded ==
    C26_S4 =>
        /\ EstimatesAreHMax
        /\ stats.generated <= 4
        /\ stats.expanded <= 4
        /\ pc = "finished" =>
            /\ status = "SOLVED"
            /\ Len(plan) = 2
            /\ PlanCost(plan) = 2
            /\ stats.generated = stats.expanded
            /\ stats.generated \in {3, 4}
            /\ cfg.olist = "h" => stats.generated = 3
            /\ cfg.olist = "f" => stats.generated = 4

\* C26 happens: the f-ordered search of S4 stopped with all four operator
\* applications generated, the goal state generated twice
C26_Witness ==
    /\ C26_S4
    /\ cfg.olist = "f"
    /\ pc = "finished"
    /\ status = "SOLVED"
    /\ Len(plan) = 2
    /\ stats.generated = 4
    /\ stats.expanded = 4
    /\ Len(reg) = 4


---------------------------------------------------------------------------
(* Segmented storage (src/search/algorithms/segmented_vector.h)            *)

\* the largest size a container is grown to
MaxSize == 5
\* the largest elements_per_array a SegmentedArrayVector is constructed with
MaxArray == 3

SEGMENT_BYTES == 8192

\* sizeof(Entry) of the entry types stored in a SegmentedVector; the last
\* one is larger than a segment
EntrySizes == {2048, 2730, 4096, 10000}
\* sizeof(Element) of the element types stored in a SegmentedArrayVector
ElementSizes == {1024, 2048, 4096}

\* the entries pushed into a SegmentedVector
Entries == {"a", "b"}
\* the arrays pushed into a SegmentedArrayVector of k elements per array:
\* array n has the elements <<n, 1>>, ..., <<n, k>>
ArrayOf(n, k) == [j \in 1..k |-> <<n, j>>]
Arrays(k) == {ArrayOf(n, k) : n \in 1..2}

\* memory that holds no constructed object
Raw == "raw"

\* the larger of two numbers
Max2(a, b) == IF a >= b THEN a ELSE b

\* SegmentedVector::SEGMENT_ELEMENTS
SEGMENT_ELEMENTS ==
    IF SEGMENT_BYTES \div sv.sizeof >= 1 THEN SEGMENT_BYTES \div sv.sizeof ELSE 1

\* SegmentedArrayVector::elements_per_array, arrays_per_segment and
\* elements_per_segment as the constructor computes them
elements_per_array == sv.k
arrays_per_segment == Max2(SEGMENT_BYTES \div (elements_per_array * sv.sizeof), 1)
elements_per_segment == elements_per_array * arrays_per_segment

\* SegmentedVector::get_segment and get_offset
get_segment(index) == index \div SEGMENT_ELEMENTS
get_offset(index) == index % SEGMENT_ELEMENTS

\* mutant of ArrayGetOffset: the offset counts arrays, not elements
ArrayGetOffsetInArrays(index) == index % arrays_per_segment

\* SegmentedArrayVector::get_segment and get_offset
ArrayGetSegment(index) == index \div arrays_per_segment
ArrayGetOffset(index) == (index % arrays_per_segment) * elements_per_array

\* the members of the container and the state of its allocator
Container == [segments |-> segments, the_size |-> the_size,
              allocated |-> allocated, freed |-> freed]

\* mutant of AddSegment: the segments allocated so far are moved to new
\* memory when one is added, as a growing vector moves its elements
AddSegmentMoving(x, n) ==
    [x EXCEPT !.segments = [j \in 1..(Len(@) + 1) |->
                               IF j <= Len(@)
                               THEN [addr |-> x.allocated + j, cells |-> @[j].cells]
                               ELSE [addr |-> x.allocated + j, cells |-> [c \in 1..n |-> Raw]]],
              !.allocated = @ + Len(x.segments) + 1,
              !.freed = @ \cup {x.segments[j].addr : j \in 1..Len(x.segments)}]

\* add_segment: memory for n objects is allocated (at an address not handed
\* out before) and appended to segments
AddSegment(x, n) ==
    [x EXCEPT !.segments = Append(@, [addr |-> x.allocated + 1,
                                      cells |-> [c \in 1..n |-> Raw]]),
              !.allocated = @ + 1]

\* mutant of PushBack: the size grows, no entry is constructed
PushBackNothing(x, entry) ==
    LET y == IF get_segment(x.the_size) = Len(x.segments)
             THEN AddSegment(x, SEGMENT_ELEMENTS) ELSE x
    IN  [y EXCEPT !.the_size = @ + 1]

\* SegmentedVector::push_back
PushBack(x, entry) ==
    LET segment == get_segment(x.the_size)
        offset == get_offset(x.the_size)
        y == IF segment = Len(x.segments) THEN AddSegment(x, SEGMENT_ELEMENTS) ELSE x
    IN  [y EXCEPT !.segments[segment + 1].cells[offset + 1] = entry,
                  !.the_size = @ + 1]

\* mutant of PopBack: a segment that holds no entry any more is given back
PopBackFreeing(x) ==
    LET index == x.the_size - 1
        last == x.segments[Len(x.segments)]
    IN  IF get_offset(index) = 0
        THEN [x EXCEPT !.segments = SubSeq(@, 1, Len(@) - 1),
                       !.freed = @ \cup {last.addr},
                       !.the_size = @ - 1]
        ELSE [x EXCEPT !.segments[get_segment(index) + 1].cells[get_offset(index) + 1] = Raw,
                       !.the_size = @ - 1]

\* SegmentedVector::pop_back: the last entry is destroyed; its segment stays
PopBack(x) ==
    LET index == x.the_size - 1
    IN  [x EXCEPT !.segments[get_segment(index) + 1].cells[get_offset(index) + 1] = Raw,
                  !.the_size = @ - 1]

\* SegmentedVector::resize: the two loops
RECURSIVE Resize(_, _, _)
Resize(x, new_size, entry) ==
    IF new_size < x.the_size THEN Resize(PopBack(x), new_size, entry)
    ELSE IF new_size > x.the_size THEN Resize(PushBack(x, entry), new_size, entry)
    ELSE x

\* SegmentedVector::operator[]
At(x, index) == x.segments[get_segment(index) + 1].cells[get_offset(index) + 1]

\* cells from .. from + n - 1 of a segment replaced by the elements of entry
WriteArray(cells, from, entry) ==
    [c \in 1..Len(cells) |->
        IF c >= from /\ c < from + Len(entry) THEN entry[c - from + 1] ELSE cells[c]]

\* SegmentedArrayVector::push_back
ArrayPushBack(x, entry) ==
    LET segment == ArrayGetSegment(x.the_size)
        offset == ArrayGetOffset(x.the_size)
        y == IF segment = Len(x.segments) THEN AddSegment(x, elements_per_segment) ELSE x
    IN  [y EXCEPT !.segments[segment + 1].cells = WriteArray(@, offset + 1, entry),
                  !.the_size = @ + 1]

\* SegmentedArrayVector::pop_back
ArrayPopBack(x) ==
    LET index == x.the_size - 1
    IN  [x EXCEPT !.segments[ArrayGetSegment(index) + 1].cells =
                      WriteArray(@, ArrayGetOffset(index) + 1,
                                 [j \in 1..elements_per_array |-> Raw]),
                  !.the_size = @ - 1]

\* SegmentedArrayVector::resize
RECURSIVE ArrayResize(_, _, _)
ArrayResize(x, new_size, entry) ==
    IF new_size < x.the_size THEN ArrayResize(ArrayPopBack(x), new_size, entry)
    ELSE IF new_size > x.the_size THEN ArrayResize(ArrayPushBack(x, entry), new_size, entry)
    ELSE x

\* SegmentedArrayVector::operator[]: the address returned, as segment
\* address and offset, and the elements_per_array elements found there
ArrayAddress(x, index) ==
    <<x.segments[ArrayGetSegment(index) + 1].addr, ArrayGetOffset(index)>>
ArrayAt(x, index) ==
    [j \in 1..elements_per_array |->
        x.segments[ArrayGetSegment(index) + 1].cells[ArrayGetOffset(index) + j]]

\* the container after an operation, and what a plain sequence holds then
Becomes(x, seq) ==
    /\ segments' = x.segments
    /\ the_size' = x.the_size
    /\ allocated' = x.allocated
    /\ freed' = x.freed
    /\ pushed' = seq
    /\ high' = Max2(high, x.the_size)
    /\ reused' = (reused \/ (x.the_size > the_size /\ the_size < high))
    /\ UNCHANGED <<sv, cfg, searchVars, hmaxVars, ocVars>>

\* the plain sequence after resize(new_size, entry)
Resized(seq, new_size, entry) ==
    [i \in 1..new_size |-> IF i <= Len(seq) THEN seq[i] ELSE entry]

SegPushBack ==
    /\ sv.kind = "vector"
    /\ the_size < MaxSize
    /\ get_segment(the_size) <= Len(segments)
    /\ \E entry \in Entries : Becomes(PushBack(Container, entry), Append(pushed, entry))

SegPopBack ==
    /\ sv.kind = "vector"
    /\ the_size > 0
    /\ Becomes(PopBack(Container), SubSeq(pushed, 1, Len(pushed) - 1))

SegResize ==
    /\ sv.kind = "vector"
    /\ get_segment(the_size) <= Len(segments)
    /\ \E new_size \in 0..MaxSize, entry \in Entries :
        Becomes(Resize(Container, new_size, entry), Resized(pushed, new_size, entry))

SegArrayPushBack ==
    /\ sv.kind = "array"
    /\ the_size < MaxSize
    /\ ArrayGetSegment(the_size) <= Len(segments)
    /\ \E entry \in Arrays(elements_per_array) :
        Becomes(ArrayPushBack(Container, entry), Append(pushed, entry))

SegArrayPopBack ==
    /\ sv.kind = "array"
    /\ the_size > 0
    /\ Becomes(ArrayPopBack(Container), SubSeq(pushed, 1, Len(pushed) - 1))

SegArrayResize ==
    /\ sv.kind = "array"
    /\ ArrayGetSegment(the_size) <= Len(segments)
    /\ \E new_size \in 0..MaxSize, entry \in Arrays(elements_per_array) :
        Becomes(ArrayResize(Container, new_size, entry), Resized(pushed, new_size, entry))

\* the containers constructed: a SegmentedVector of some entry type, or a
\* SegmentedArrayVector of some element type and elements_per_array k > 0
Containers ==
    [kind : {"vector"}, sizeof : EntrySizes, k : {1}]
        \cup [kind : {"array"}, sizeof : ElementSizes, k : 1..MaxArray]

SegInit ==
    /\ CountingIdle
    /\ cfg = << >>
    /\ SearchIdle
    /\ HeuristicIdle
    /\ sv \in Containers
    /\ segments = << >>
    /\ the_size = 0
    /\ allocated = 0
    /\ freed = {}
    /\ pushed = << >>
    /\ high = 0
    /\ reused = FALSE

SegNext ==
    \/ SegPushBack
    \/ SegPopBack
    \/ SegResize
    \/ SegArrayPushBack
    \/ SegArrayPopBack
    \/ SegArrayResize

SegSpec == SegInit /\ [][SegNext]_vars


---------------------------------------------------------------------------
(* C27 *)

\* C27: after every sequence of push_back and pop_back (and resize) calls,
\* size() is the number of pushes minus the number of pops and operator[](i)
\* returns the i-th element of the live prefix, as for a plain sequence with
\* append and remove-last; across segment boundaries and when a push
\* follows pops.
C27_RefinesSequence ==
    sv # << >> =>
        /\ the_size = Len(pushed)
        /\ \A i \in 0..(the_size - 1) :
              pushed[i + 1] = IF sv.kind = "vector" THEN At(Container, i)
                              ELSE ArrayAt(Container, i)

\* C27 happens: a SegmentedVector holds different entries in three
\* segments, after entries were popped and others pushed in their place
C27_Witness ==
    /\ sv # << >>
    /\ sv.kind = "vector"
    /\ Len(segments) >= 3
    /\ reused
    /\ get_segment(the_size - 1) = 2
    /\ the_size < high
    /\ At(Container, 0) # At(Container, the_size - 1)


---------------------------------------------------------------------------
(* C28 *)

\* where entry index is stored: the address of its segment and the offset
\* in it
Location(x, index) ==
    IF sv.kind = "vector"
    THEN <<x.segments[get_segment(index) + 1].addr, get_offset(index)>>
    ELSE ArrayAddress(x, index)

\* what a reference to location loc denotes: the object in that cell of
\* the segment at that address, nothing if the segment is gone
Denotes(x, loc) ==
    LET found == {j \in 1..Len(x.segments) : x.segments[j].addr = loc[1]}
    IN  IF found = {} THEN "dangling"
        ELSE x.segments[CHOOSE j \in found : TRUE].cells[loc[2] + 1]

\* the container after the step
ContainerAfter == [segments |-> segments', the_size |-> the_size',
                   allocated |-> allocated', freed |-> freed']

\* an entry that is live before and after an operation is stored at the
\* same location, and a reference to it taken before denotes it afterwards
C28_LocationsKept ==
    [][\A i \in 0..(the_size - 1) :
          i < the_size' =>
              /\ Location(ContainerAfter, i) = Location(Container, i)
              /\ Denotes(ContainerAfter, Location(Container, i))
                     = Denotes(Container, Location(Container, i))]_vars

\* no operation moves, reallocates or frees an allocated segment
C28_SegmentsKept ==
    [][/\ Len(segments') >= Len(segments)
       /\ \A j \in 1..Len(segments) : segments'[j].addr = segments[j].addr
       /\ freed' = {}]_vars

---------------------------------------------------------------------------
(* C29 *)

\* how many entries a segment of the container holds
EntriesPerSegment == IF sv.kind = "vector" THEN SEGMENT_ELEMENTS ELSE arrays_per_segment

\* a divided by b, rounded up
CeilDiv(a, b) == (a + b - 1) \div b

\* the segment push_back would write to: its index and the offset in it,
\* in entries
NextSegment == the_size \div EntriesPerSegment
NextOffset == the_size % EntriesPerSegment

\* the number of allocated segments is ceil(H / entries per segment), H the
\* largest size reached; none was given back; the assertion of push_back
\* (lines 124, 245) holds wherever push_back can be called
C29_SegmentsForHighWater ==
    sv # << >> =>
        /\ Len(segments) = CeilDiv(high, EntriesPerSegment)
        /\ allocated = Len(segments)
        /\ freed = {}
        /\ NextSegment <= Len(segments)
        /\ NextSegment = Len(segments) => NextOffset = 0

\* pop_back allocates and deallocates nothing; growing up to the largest
\* size reached before allocates nothing; a push_back allocates only when
\* the_size = entries per segment * number of segments
C29_AllocationOnlyWhenFull ==
    [][/\ the_size' < the_size => (allocated' = allocated /\ Len(segments') = Len(segments))
       /\ (the_size' > the_size /\ the_size' <= high) =>
              (allocated' = allocated /\ Len(segments') = Len(segments))
       /\ allocated' > allocated =>
              /\ the_size' > EntriesPerSegment * Len(segments)
              /\ the_size' = the_size + 1 => the_size = EntriesPerSegment * Len(segments)
       /\ freed' = freed]_vars

\* C29: pop_back never deallocates a segment: the number of allocated
\* segments is ceil(H / SEGMENT_ELEMENTS), H the largest size ever reached; a
\* push_back after a pop_back that drained a segment reuses it without
\* allocating; a new segment is allocated only when the_size is
\* SEGMENT_ELEMENTS times the number of segments, so the assertion
\* offset == 0 holds.
C29_SegmentsNeverShrink == C29_AllocationOnlyWhenFull /\ []C29_SegmentsForHighWater

\* C29 happens: the last segment was drained and is still allocated, after
\* entries had been pushed where popped ones had been, in a container whose
\* segments hold several entries
C29_Witness ==
    /\ sv # << >>
    /\ EntriesPerSegment >= 2
    /\ Len(segments) >= 2
    /\ reused
    /\ the_size <= EntriesPerSegment * (Len(segments) - 1)
    /\ \A c \in DOMAIN segments[Len(segments)].cells : segments[Len(segments)].cells[c] = Raw
    /\ the_size >= 1


---------------------------------------------------------------------------
(* C30 *)

\* the cells of its segment that record index occupies (offsets from 0)
CellsOf(index) ==
    {ArrayGetOffset(index) + j : j \in 0..(elements_per_array - 1)}

\* C30: a SegmentedArrayVector with elements_per_array = k >= 1 stores
\* arrays_per_segment = max(1, floor(8192 / (k * sizeof(Element)))) whole
\* records per segment; record i occupies the k consecutive elements from
\* offset (i mod arrays_per_segment) * k of segment floor(i /
\* arrays_per_segment); no record straddles two segments, distinct live
\* records never overlap, and operator[](i) returns exactly the k elements
\* pushed as record i.
C30_RecordsAreWholeAndDisjoint ==
    (sv # << >> /\ sv.kind = "array") =>
        /\ elements_per_array >= 1
        /\ arrays_per_segment >= 1
        /\ arrays_per_segment * elements_per_array * sv.sizeof <= SEGMENT_BYTES
              \/ arrays_per_segment = 1
        /\ (arrays_per_segment + 1) * elements_per_array * sv.sizeof > SEGMENT_BYTES
        /\ \A j \in 1..Len(segments) : Len(segments[j].cells) = elements_per_segment
        /\ \A i \in 0..(the_size - 1) :
            /\ ArrayGetSegment(i) < Len(segments)
            /\ ArrayAddress(Container, i)
                   = <<segments[(i \div arrays_per_segment) + 1].addr,
                       (i % arrays_per_segment) * elements_per_array>>
            /\ \A c \in CellsOf(i) : c < elements_per_segment
            /\ \A h \in 0..(the_size - 1) :
                  (h # i /\ ArrayGetSegment(h) = ArrayGetSegment(i)) =>
                      CellsOf(h) \cap CellsOf(i) = {}
            /\ ArrayAt(Container, i) = pushed[i + 1]
            /\ Len(ArrayAt(Container, i)) = elements_per_array

\* C30 happens: arrays of three elements, two to a segment with room left
\* for part of a third, fill more than one segment; the two arrays of the
\* first segment differ, and arrays were pushed where popped ones had been
C30_Witness ==
    /\ sv # << >>
    /\ sv.kind = "array"
    /\ elements_per_array = 3
    /\ arrays_per_segment = 2
    /\ elements_per_segment * sv.sizeof < SEGMENT_BYTES
    /\ the_size >= 3
    /\ pushed[1] # pushed[2]
    /\ reused


---------------------------------------------------------------------------
(* C31 *)

\* the search from its construction on
ConstructNext ==
    \/ Construct
    \/ Next

ConstructSpec == ConstructInit /\ [][ConstructNext]_vars

\* the constructor exits with the input error exactly for a lazy evaluator
\* that does not cache its estimates, and changes nothing else
C31_ConstructorStep ==
    [][pc = "construct" =>
          /\ (cfg.lazy /\ ~cfg.caches) =>
                 (pc' = "exited" /\ status' = "SEARCH_INPUT_ERROR")
          /\ (~cfg.lazy \/ cfg.caches) =>
                 (pc' = "initialize" /\ status' = "IN_PROGRESS")
          /\ UNCHANGED <<reg, node, open, hc, stats, log>>]_vars

\* after the exit nothing runs: nothing was registered, opened, evaluated
\* or inserted; a search that runs was constructed without a lazy evaluator
\* or with one that caches
C31_NothingRunsAfterExit ==
    /\ (cfg.lazy /\ ~cfg.caches) =>
          /\ pc \in {"construct", "exited"}
          /\ reg = << >> /\ node = << >> /\ open = << >> /\ log = << >>
          /\ stats.evaluated_states = 0
    /\ pc = "exited" => (cfg.lazy /\ ~cfg.caches /\ status = "SEARCH_INPUT_ERROR")
    /\ status = "SEARCH_INPUT_ERROR" => pc = "exited"

\* C31: constructing EagerSearch with a lazy_evaluator whose
\* does_cache_estimates() is false ends with the search input-error exit
\* code during construction, before initialize runs, any state is
\* registered or any node is opened; with no lazy evaluator, or with one
\* that caches estimates, construction succeeds.
C31_NonCachingLazyEvaluatorRejected == C31_ConstructorStep /\ []C31_NothingRunsAfterExit

\* C31 happens: the constructor exited on a lazy evaluator that does not
\* cache, for a task that has a plan
C31_Witness ==
    /\ pc = "exited"
    /\ status = "SEARCH_INPUT_ERROR"
    /\ cfg.lazy /\ ~cfg.caches
    /\ OptCost # INFTY
    /\ reg = << >>


---------------------------------------------------------------------------
(* The constructor of OperatorCountingHeuristic                            *)
(* (src/search/operator_counting/operator_counting_heuristic.cc)           *)

\* the longest constraint_generators list the heuristic is constructed with
MaxGenerators == 3

\* the arguments of the constructor: the constraint generators 1..n of the
\* list and use_integer_operator_counts
CountingOptions == [generators : 0..MaxGenerators, use_integer : BOOLEAN]

\* lp_solver.get_infinity()
LPInfinity == "infinity"

\* mutant of ListIsEmpty: the list is not verified
ListIsEmptyNever(n) == FALSE

\* utils::verify_list_not_empty: the list has no element
ListIsEmpty(n) == n = 0

\* lines 15-22: the base class and the members are initialised; nothing of
\* the linear program exists
CountingInit ==
    /\ cfg \in [task : 1..Len(Tasks)]
    /\ SearchIdle
    /\ HeuristicIdle
    /\ StorageIdle
    /\ oc \in CountingOptions
    /\ opc = "verify"
    /\ lp_variables = << >>
    /\ initialised = << >>
    /\ lp_loaded = << >>

\* lines 23-24: an empty constraint_generators list is an input error
OcVerifyFails ==
    /\ opc = "verify"
    /\ ListIsEmpty(oc.generators)
    /\ opc' = "failed"
    /\ UNCHANGED <<oc, lp_variables, initialised, lp_loaded>>
    /\ UNCHANGED <<cfg, searchVars, hmaxVars, segVars>>

\* lines 23-27: the list is not empty; the MIP gap is set and the vector of
\* LP variables is created empty
OcVerified ==
    /\ opc = "verify"
    /\ ~ListIsEmpty(oc.generators)
    /\ opc' = "variables"
    /\ UNCHANGED <<oc, lp_variables, initialised, lp_loaded>>
    /\ UNCHANGED <<cfg, searchVars, hmaxVars, segVars>>

\* lines 28-35: one LP variable for the next operator, with bounds 0 and
\* infinity and the operator's cost as objective coefficient
OcCreateVariable ==
    /\ opc = "variables"
    /\ Len(lp_variables) < NumOps
    /\ lp_variables' = Append(lp_variables,
                              [lower |-> 0, upper |-> LPInfinity,
                               objective |-> Cost(Len(lp_variables) + 1),
                               is_integer |-> oc.use_integer])
    /\ UNCHANGED <<oc, opc, initialised, lp_loaded>>
    /\ UNCHANGED <<cfg, searchVars, hmaxVars, segVars>>

\* lines 36-37: every operator has its variable; the linear program is
\* created without constraints
OcVariablesDone ==
    /\ opc = "variables"
    /\ Len(lp_variables) = NumOps
    /\ opc' = "constraints"
    /\ UNCHANGED <<oc, lp_variables, initialised, lp_loaded>>
    /\ UNCHANGED <<cfg, searchVars, hmaxVars, segVars>>

\* lines 38-40: initialize_constraints of the next generator of the list
OcInitializeConstraints ==
    /\ opc = "constraints"
    /\ Len(initialised) < oc.generators
    /\ initialised' = Append(initialised, Len(initialised) + 1)
    /\ UNCHANGED <<oc, opc, lp_variables, lp_loaded>>
    /\ UNCHANGED <<cfg, searchVars, hmaxVars, segVars>>

\* line 41: the linear program is loaded into the solver
OcLoadProblem ==
    /\ opc = "constraints"
    /\ Len(initialised) = oc.generators
    /\ lp_loaded' = << [variables |-> lp_variables, generators |-> initialised] >>
    /\ opc' = "constructed"
    /\ UNCHANGED <<oc, lp_variables, initialised>>
    /\ UNCHANGED <<cfg, searchVars, hmaxVars, segVars>>

CountingNext ==
    \/ OcVerifyFails
    \/ OcVerified
    \/ OcCreateVariable
    \/ OcVariablesDone
    \/ OcInitializeConstraints
    \/ OcLoadProblem

CountingSpec == CountingInit /\ [][CountingNext]_vars

---------------------------------------------------------------------------
(* C32 *)

\* the constructor fails on the empty list, in its first step
C32_FailsFirst ==
    [][(opc = "verify" /\ oc.generators = 0) =>
          (opc' = "failed" /\ UNCHANGED <<lp_variables, initialised, lp_loaded>>)]_vars

\* with an empty list nothing of the linear program comes to exist, and
\* the constructor fails for no other list
C32_NothingCreated ==
    oc # << >> =>
        /\ oc.generators = 0 =>
              /\ opc \in {"verify", "failed"}
              /\ lp_variables = << >>
              /\ initialised = << >>
              /\ lp_loaded = << >>
        /\ opc = "failed" => oc.generators = 0
        /\ opc = "constructed" =>
              /\ Len(lp_variables) = NumOps
              /\ Len(initialised) = oc.generators
              /\ lp_loaded # << >>

\* C32: constructing OperatorCountingHeuristic with an empty
\* constraint_generators list fails with an input error at construction
\* time, before any LP variable is created, any constraint generator is
\* initialised or any LP is loaded into the solver.
C32_EmptyGeneratorListRejected == C32_FailsFirst /\ []C32_NothingCreated

\* C32 happens: the constructor failed on an empty list for a task with
\* operators, for which it would have created LP variables
C32_Witness ==
    /\ opc = "failed"
    /\ oc.generators = 0
    /\ NumOps >= 2
    /\ lp_variables = << >>
    /\ lp_loaded = << >>


---------------------------------------------------------------------------
(* C33 *)

\* the operator generate_successors looks at next is applied (the bound
\* does not skip it) and leads to state i, registered before
C33_Reaches(i) ==
    /\ pc = "generate"
    /\ todo # << >>
    /\ node[cur].real_g + Cost(Head(todo)) < cfg.bound
    /\ i \in 1..Len(reg)
    /\ reg[i] = SuccState(reg[cur], Head(todo))

\* g of the path through the expanded node
C33_NewG == node[cur].g + AdjustedCost(Head(todo))

\* a strictly cheaper path to an Open node, or to a Closed one with
\* reopen_closed: new g, parent and operator, status Open, one new entry,
\* reopened counted exactly for a Closed node
C33_CheaperPath ==
    [][\A i \in 1..Len(reg) :
          ( /\ C33_Reaches(i)
            /\ node[i].status = "OPEN" \/ (node[i].status = "CLOSED" /\ cfg.reopen)
            /\ C33_NewG < node[i].g ) =>
              /\ node'[i].g = C33_NewG
              /\ node'[i].parent = cur
              /\ node'[i].op = Head(todo)
              /\ node'[i].status = "OPEN"
              /\ \A j \in 1..Len(node) : j # i => node'[j] = node[j]
              /\ Len(open') = Len(open) + 1
              /\ SubSeq(open', 1, Len(open)) = open
              /\ open'[Len(open')].id = i
              /\ stats' = [stats EXCEPT
                              !.generated = @ + 1,
                              !.reopened = IF node[i].status = "CLOSED" THEN @ + 1 ELSE @]]_vars

\* an equally or more expensive path to an Open or Closed node changes
\* nothing but the generated counter
C33_NoCheaperPath ==
    [][\A i \in 1..Len(reg) :
          ( /\ C33_Reaches(i)
            /\ node[i].status \in {"OPEN", "CLOSED"}
            /\ C33_NewG >= node[i].g ) =>
              /\ node' = node
              /\ open' = open
              /\ stats' = [stats EXCEPT !.generated = @ + 1]]_vars

\* C33: when a successor that is Open, or Closed with reopen_closed = true,
\* is reached with node.g + adjusted_cost(op) strictly below its recorded g,
\* its g becomes node.g + adjusted_cost(op), its parent and generating
\* operator become the expanded node and op, its status is Open, exactly one
\* new open-list entry is inserted for it, and the reopened counter is
\* incremented by one exactly when it was Closed; when the new path is
\* equally or more expensive, the successor's node, the open list and the
\* counters other than 'generated' are unchanged.
C33_CheaperPathRewires == C33_CheaperPath /\ C33_NoCheaperPath

\* C33 happens: in one run an Open node was given a cheaper parent, a
\* Closed node was reopened, and both were closed again afterwards
C33_Witness ==
    /\ cfg.reopen
    /\ stats.reopened >= 1
    /\ \E a, b \in 1..Len(log) :
          /\ log[a].ev = "update_open_node_parent"
          /\ log[b].ev = "reopen_closed_node"
          /\ Count("close", log[a].id) >= 1
          /\ Count("close", log[b].id) >= 2


---------------------------------------------------------------------------
(* C34 *)

\* the events a step appends to the log
C34_NewEvents == {k \in 1..Len(log') : k > Len(log)}

\* every insertion of a step carries the g its node has when it is inserted,
\* puts the key made from it at the end of the open list, and under the
\* g-evaluator that key is the node's g
C34_ContextCarriesRecordedG ==
    [][\A k \in C34_NewEvents :
          log'[k].ev = "insert" =>
              /\ log'[k].x = node'[log'[k].id].g
              /\ Len(open') >= 1
              /\ open'[Len(open')] = [key |-> log'[k].y, id |-> log'[k].id]
              /\ cfg.olist = "g" => log'[k].y = << node'[log'[k].id].g >>]_vars

\* a node opened for the first time stores succ_g = node.g + adjusted_cost(op)
\* and is inserted with it
C34_NewSuccessorG ==
    [][\A k \in C34_NewEvents :
          ( /\ log'[k].ev = "insert"
            /\ pc = "generate"
            /\ log'[k].id > Len(node) \/ node[log'[k].id].status = "NEW" ) =>
              /\ log'[k].x = node[cur].g + AdjustedCost(Head(todo))
              /\ node'[log'[k].id].g = node[cur].g + AdjustedCost(Head(todo))]_vars

\* C34: at every insertion into the open list (initial state, New
\* successor, re-parented Open node, reopened node, lazy re-insertion) the
\* g-value carried by the evaluation context equals the node's recorded g at
\* that moment, so a key computed by the g-evaluator equals the recorded g of
\* the inserted node; for a New successor succ_g = node.g +
\* adjusted_cost(op) equals the g stored by open_new_node.
C34_InsertedWithRecordedG == C34_ContextCarriesRecordedG /\ C34_NewSuccessorG

\* C34 happens: one run under adjusted costs has inserted the initial state,
\* a New successor, a re-parented Open node, a reopened node and a lazily
\* re-evaluated node
C34_Witness ==
    /\ cfg.cost_type # "NORMAL"
    /\ lazy_used >= 1
    /\ Count("insert", 1) >= 1
    /\ \E a, b, c \in 1..Len(log) :
          /\ log[a].ev = "update_open_node_parent"
          /\ log[b].ev = "reopen_closed_node"
          /\ log[c].ev = "insert" /\ log[c].id # 1 /\ log[c].x > 0


---------------------------------------------------------------------------
(* C35 *)

\* without a lazy evaluator every entry of the open list refers to a
\* registered state whose node is Open or Closed
C35_EntriesOpenOrClosed ==
    ~cfg.lazy =>
        \A k \in 1..Len(open) :
            /\ open[k].id \in 1..Len(reg)
            /\ open[k].id \in 1..Len(node)
            /\ node[open[k].id].status \in {"OPEN", "CLOSED"}

\* without a lazy evaluator the entry get_node_to_expand pops belongs to a
\* Closed or an Open node, and the node it closes was Open and is no dead end
\* afterwards (the assertion of line 178)
C35_ClosedNodeWasOpen ==
    [][(~cfg.lazy /\ pc = "next_node" /\ open # << >>) =>
          /\ node[Popped.id].status \in {"OPEN", "CLOSED"}
          /\ \A k \in 1..Len(log') :
                (k > Len(log) /\ log'[k].ev = "close") =>
                    /\ log'[k].id = Popped.id
                    /\ node[Popped.id].status = "OPEN"
                    /\ node'[Popped.id].status = "CLOSED"
                    /\ node'[Popped.id].status # "DEAD_END"]_vars

\* C35: without a lazy evaluator, every open-list entry refers to a
\* registered state whose node is Open or Closed, never New or DeadEnd;
\* every popped entry that is not Closed belongs to an Open node; the
\* assertion !node.is_dead_end() after node.close() cannot fail.
C35_NoDeadEntriesWithoutLazy == []C35_EntriesOpenOrClosed /\ C35_ClosedNodeWasOpen

\* C35 happens: without a lazy evaluator a successor was marked as a dead
\* end, nodes were closed, and the open list holds an entry of a Closed node
\* beside one of an Open node
C35_Witness ==
    /\ ~cfg.lazy
    /\ stats.expanded >= 2
    /\ \E i \in 1..Len(node) : i # 1 /\ node[i].status = "DEAD_END"
    /\ \E a, b \in 1..Len(open) :
          /\ node[open[a].id].status = "CLOSED"
          /\ node[open[b].id].status = "OPEN"


---------------------------------------------------------------------------
(* C36 *)

\* node i has an entry in the open list
C36_HasEntry(i) == \E k \in 1..Len(open) : open[k].id = i

\* C36: in every reachable state between two calls of step, every Open node
\* has at least one entry in the open list.
C36_OpenNodesHaveEntries ==
    pc \in {"next_node", "finished"} =>
        \A i \in 1..Len(node) : node[i].status = "OPEN" => C36_HasEntry(i)

\* C36 happens: between two steps, after a lazy re-insertion and a
\* reopening, a node is Open and has two entries in the open list
C36_Witness ==
    /\ pc = "next_node"
    /\ lazy_used >= 1
    /\ stats.reopened >= 1
    /\ \E i \in 1..Len(node) :
          /\ node[i].status = "OPEN"
          /\ \E a, b \in 1..Len(open) : a # b /\ open[a].id = i /\ open[b].id = i


---------------------------------------------------------------------------
(* C37 *)

\* the walk along the parent pointers from node i arrives at the initial
\* state, the node without a parent, after at most fuel steps
RECURSIVE C37_ReachesInitial(_, _)
C37_ReachesInitial(i, fuel) ==
    IF node[i].parent = 0 THEN i = 1
    ELSE /\ fuel > 0
         /\ node[i].parent \in 1..Len(node)
         /\ C37_ReachesInitial(node[i].parent, fuel - 1)

\* C37: following parent pointers from any Open or Closed node reaches the
\* initial state (the only opened node without a parent) in finitely many
\* steps; the parent relation stays acyclic after rewiring, with
\* reopen_closed true or false and with zero-cost operators, so trace_path
\* always terminates.
C37_ParentsLeadToInitial ==
    \A i \in 1..Len(node) :
        node[i].status \in {"OPEN", "CLOSED"} =>
            C37_ReachesInitial(i, Len(node) - 1)

\* C37 happens: operators of cost zero were applied, a node was given a new
\* parent, and a node lies two parent steps away from the initial state
C37_Witness ==
    /\ \E k \in 1..Len(log) :
          log[k].ev \in {"update_closed_node_parent", "reopen_closed_node",
                         "update_open_node_parent"}
    /\ \E i \in 1..Len(node) :
          /\ node[i].status \in {"OPEN", "CLOSED"}
          /\ node[i].parent # 0
          /\ node[node[i].parent].parent # 0
    /\ \E j \in 1..Len(node) :
          /\ node[j].parent # 0
          /\ AdjustedCost(node[j].op) = 0


---------------------------------------------------------------------------
(* C38 *)

\* C38: whenever step returns SOLVED under a finite bound >= 1, the sum of
\* the true operator costs of the returned plan (reconstructed from the
\* parent chain) is strictly less than bound, for every cost_type and with
\* reopen_closed true or false.
C38_PlanCostBelowBound ==
    (status = "SOLVED" /\ cfg.bound # INFTY /\ cfg.bound >= 1) =>
        PlanCost(plan) < cfg.bound


---------------------------------------------------------------------------
(* C39 *)

\* the unary operators without preconditions
C39_PreconditionFree == {u \in 1..Len(unary_operators) : unary_operators[u].pre = {}}

\* queue setup: the effect of every unary operator without preconditions has
\* a cost of at most the operator's base cost and an entry at its cost; the
\* entry at base_cost is there unless another such operator has the same
\* effect at a lower base cost
C39_EnqueuedDuringSetup ==
    [][(hpc \in {"call", "returned"} /\ hpc' = "explore") =>
          \A u \in C39_PreconditionFree :
              LET p == unary_operators[u].effect
                  b == unary_operators[u].base_cost
              IN  /\ prop_cost'[p] \in 0..b
                  /\ [cost |-> prop_cost'[p], prop |-> p] \in queue'
                  /\ (\A v \in C39_PreconditionFree :
                         unary_operators[v].effect = p => b <= unary_operators[v].base_cost)
                         => [cost |-> b, prop |-> p] \in queue']_vars

\* from queue setup to the return the cost of such an effect stays within
\* the base cost
C39_CostWithinBaseCost ==
    hpc \in {"explore", "total", "returned"} =>
        \A u \in C39_PreconditionFree :
            prop_cost[unary_operators[u].effect] \in 0..unary_operators[u].base_cost

\* a state whose unmet goal propositions are all effects of operators
\* without preconditions is no dead end
C39_GoalNotDeadEnd ==
    ( /\ hpc = "returned"
      /\ \A g \in goal_propositions :
            g \in FactsOf(hstate)
                \/ \E u \in C39_PreconditionFree : unary_operators[u].effect = g ) =>
        /\ total_cost # DEAD_END
        /\ total_cost >= 0

---------------------------------------------------------------------------
(* C40 *)

\* proposition p was popped and processed in this evaluation: it has a cost
\* and the entry pushed with that cost has left the queue
C40_Processed(p) ==
    /\ prop_cost[p] >= 0
    /\ [cost |-> prop_cost[p], prop |-> p] \notin queue

\* the assertions of lines 67, 68 and 79: an entry that can be popped
\* belongs to a proposition with a cost between 0 and the entry's distance,
\* and no counter of unsatisfied preconditions is negative
C40_Assertions ==
    hpc \in {"explore", "total", "returned"} =>
        /\ \A e \in queue : 0 <= prop_cost[e.prop] /\ prop_cost[e.prop] <= e.cost
        /\ \A u \in 1..Len(unary_operators) :
              /\ unsatisfied_preconditions[u] >= 0
              /\ unsatisfied_preconditions[u] <= NumPreconditions(u)

\* a proposition that was processed is not processed again: within one
\* evaluation it keeps its cost and gets no new entry, and the entry a step
\* pops without skipping it is the one at the proposition's cost
C40_ProcessedOnce ==
    [][hpc = "explore" =>
          /\ \A p \in Propositions :
                C40_Processed(p) =>
                    /\ prop_cost'[p] = prop_cost[p]
                    /\ \A e \in queue' : e.prop = p => e \in queue
          /\ \A e \in queue :
                (e \notin queue' /\ ~PoppedIsStale(e)) =>
                    /\ e.cost = prop_cost[e.prop]
                    /\ \A f \in queue' : f.prop = e.prop => f \in queue /\ f.cost > e.cost]_vars

\* C40: during relaxed_exploration every popped entry satisfies
\* 0 <= prop.cost <= popped distance, and every proposition is processed
\* (not skipped as stale) at most once per evaluation, so no
\* unsatisfied_preconditions counter becomes negative; the three assertions
\* of relaxed_exploration hold for every task and state.
C40_ExplorationAssertionsHold == []C40_Assertions /\ C40_ProcessedOnce

\* C40 happens: in an evaluation a proposition was processed, a later entry
\* of it at a higher distance is at the head of the queue and will be
\* skipped, and an operator with preconditions has had all of them satisfied
C40_Witness ==
    /\ hpc = "explore"
    /\ \E e \in QueueTop : PoppedIsStale(e) /\ C40_Processed(e.prop)
    /\ \E u \in 1..Len(unary_operators) :
          NumPreconditions(u) >= 1 /\ unsatisfied_preconditions[u] = 0

=============================================================================
